---- MODULE Spec2Model ----
(***************************************************************************)
(* Model of the conversational intent-resolution engine of                 *)
(* backend/app.py: the /api/voice-agent endpoint (voice_agent), the buyer  *)
(* dialogue (process_middleman_voice_query), the seller dialogue           *)
(* (process_manager_voice_query) and the add-stock wizard                  *)
(* (handle_add_stock_flow), over the stock and orders tables.              *)
(*                                                                         *)
(* Texts are native strings; the matching of the code (substring tests,    *)
(* split(), isdigit(), int(), lower(), strip(), title()) is computed on    *)
(* them character by character.  A dictionary key that may be absent is an *)
(* option: None when the key is absent, Some(v) when it holds v.           *)
(***************************************************************************)
EXTENDS Integers, Sequences, FiniteSets, TLC

VARIABLES stock, orders, today, ctx, last

vars == <<stock, orders, today, ctx, last>>

----------------------------------------------------------------------------
(* Options: an absent dictionary key / a Python None.                      *)

None == <<>>

Some(v) == <<v>>

IsSome(o) == Len(o) = 1

Val(o) == o[1]

----------------------------------------------------------------------------
(* Python string operations, on native strings.                            *)

UpperAlpha == "ABCDEFGHIJKLMNOPQRSTUVWXYZ"

LowerAlpha == "abcdefghijklmnopqrstuvwxyz"

Digits == "0123456789"

CharAt(s, i) == SubSeq(s, i, i)

RECURSIVE Find(_, _, _)
\* s.find(c, i - 1) + 1 for a one-character c: the first position of c in s
\* from position i on, 0 when there is none
Find(c, s, i) == IF i > Len(s) THEN 0 ELSE IF CharAt(s, i) = c THEN i ELSE Find(c, s, i + 1)

IndexIn(c, s) == Find(c, s, 1)

\* Python `t in s` for strings
Contains(s, t) == \E i \in 1..(Len(s) - Len(t) + 1) : SubSeq(s, i, i + Len(t) - 1) = t

\* any(w in s for w in ws)
ContainsAny(s, ws) == \E k \in 1..Len(ws) : Contains(s, ws[k])

LowerChar(c) == IF IndexIn(c, UpperAlpha) > 0 THEN CharAt(LowerAlpha, IndexIn(c, UpperAlpha)) ELSE c

UpperChar(c) == IF IndexIn(c, LowerAlpha) > 0 THEN CharAt(UpperAlpha, IndexIn(c, LowerAlpha)) ELSE c

IsAlpha(c) == IndexIn(c, LowerAlpha) > 0 \/ IndexIn(c, UpperAlpha) > 0

RECURSIVE Lower(_)
\* str.lower()
Lower(s) == IF Len(s) = 0 THEN "" ELSE LowerChar(CharAt(s, 1)) \o Lower(SubSeq(s, 2, Len(s)))

RECURSIVE LStrip(_)
LStrip(s) == IF Len(s) > 0 /\ CharAt(s, 1) = " " THEN LStrip(SubSeq(s, 2, Len(s))) ELSE s

RECURSIVE RStrip(_)
RStrip(s) == IF Len(s) > 0 /\ CharAt(s, Len(s)) = " " THEN RStrip(SubSeq(s, 1, Len(s) - 1)) ELSE s

\* str.strip()
Strip(s) == RStrip(LStrip(s))

RECURSIVE SplitFrom(_, _, _)
SplitFrom(s, i, cur) ==
    IF i > Len(s) THEN (IF cur = "" THEN <<>> ELSE <<cur>>)
    ELSE IF CharAt(s, i) = " "
         THEN (IF cur = "" THEN <<>> ELSE <<cur>>) \o SplitFrom(s, i + 1, "")
         ELSE SplitFrom(s, i + 1, cur \o CharAt(s, i))

\* str.split(): the words between runs of whitespace
Split(s) == SplitFrom(s, 1, "")

\* str.isdigit()
IsDigit(w) == Len(w) > 0 /\ \A i \in 1..Len(w) : IndexIn(CharAt(w, i), Digits) > 0

RECURSIVE ParseInt(_)
\* int(w) for a word of decimal digits
ParseInt(w) ==
    IF Len(w) = 0 THEN 0
    ELSE ParseInt(SubSeq(w, 1, Len(w) - 1)) * 10 + (IndexIn(CharAt(w, Len(w)), Digits) - 1)

RECURSIVE TitleFrom(_, _, _)
TitleFrom(s, i, prevAlpha) ==
    IF i > Len(s) THEN ""
    ELSE LET c == CharAt(s, i) IN
         (IF prevAlpha THEN LowerChar(c) ELSE UpperChar(c)) \o TitleFrom(s, i + 1, IsAlpha(c))

\* str.title(): a letter after a non-letter is upper-cased, the others lower-cased
Title(s) == TitleFrom(s, 1, FALSE)

\* the first word of ws that is all digits, as a number: the
\* `for word in words: if word.isdigit(): quantity = int(word); break` loop
FirstDigitWord(ws) ==
    IF \E k \in 1..Len(ws) : IsDigit(ws[k])
    THEN Some(ParseInt(ws[CHOOSE k \in 1..Len(ws) : IsDigit(ws[k]) /\ \A j \in 1..(k - 1) : ~IsDigit(ws[j])]))
    ELSE None

\* membership by substring: some word of ws occurs in w
InWordsLoose(w, ws) == \E k \in 1..Len(ws) : Contains(w, ws[k])

\* k in ws, for a list of words
InWords(w, ws) == \E k \in 1..Len(ws) : ws[k] = w

----------------------------------------------------------------------------
(* datetime.date: a date object is its proleptic Gregorian ordinal         *)
(* (date.toordinal()); its "%Y-%m-%d" text is what the tables and the      *)
(* contexts store.                                                         *)

IsLeap(y) == (y % 4 = 0 /\ y % 100 # 0) \/ y % 400 = 0

DaysInMonth(y, m) ==
    IF m \in {1, 3, 5, 7, 8, 10, 12} THEN 31
    ELSE IF m \in {4, 6, 9, 11} THEN 30
    ELSE IF IsLeap(y) THEN 29 ELSE 28

\* the days of a common year before each month (datetime's _DAYS_BEFORE_MONTH)
DaysBeforeMonthTable == <<0, 31, 59, 90, 120, 151, 181, 212, 243, 273, 304, 334>>

DaysBeforeMonth(y, m) == DaysBeforeMonthTable[m] + (IF m > 2 /\ IsLeap(y) THEN 1 ELSE 0)

DaysBeforeYear(y) == LET p == y - 1 IN p * 365 + (p \div 4) - (p \div 100) + (p \div 400)

\* date(y, m, d) raises ValueError unless the day exists (MINYEAR..MAXYEAR)
ValidDate(y, m, d) == y \in 1..9999 /\ m \in 1..12 /\ d \in 1..DaysInMonth(y, m)

\* date(y, m, d)
Ordinal(y, m, d) == DaysBeforeYear(y) + DaysBeforeMonth(y, m) + d

\* date.max.toordinal(): arithmetic past it raises OverflowError
MaxOrdinal == Ordinal(9999, 12, 31)

\* date.year, date.month, date.day
YearOf(n) ==
    LET guess == (n * 400) \div 146097 + 1 IN
    CHOOSE y \in (guess - 1)..(guess + 1) : DaysBeforeYear(y) < n /\ n <= DaysBeforeYear(y + 1)

MonthOf(n) ==
    LET y == YearOf(n)
        k == n - DaysBeforeYear(y)
    IN  CHOOSE m \in 1..12 : DaysBeforeMonth(y, m) < k /\ k <= DaysBeforeMonth(y, m) + DaysInMonth(y, m)

DayOf(n) == n - DaysBeforeYear(YearOf(n)) - DaysBeforeMonth(YearOf(n), MonthOf(n))

\* zero-padded decimal of width 2 or 4
Pad2(k) == IF k < 10 THEN "0" \o ToString(k) ELSE ToString(k)

Pad4(k) ==
    IF k < 10 THEN "000" \o ToString(k)
    ELSE IF k < 100 THEN "00" \o ToString(k)
    ELSE IF k < 1000 THEN "0" \o ToString(k) ELSE ToString(k)

\* date.strftime("%Y-%m-%d")
Strftime(n) == Pad4(YearOf(n)) \o "-" \o Pad2(MonthOf(n)) \o "-" \o Pad2(DayOf(n))

\* s.split("-") when s holds exactly two "-", else <<>>
DateFields(s) ==
    LET p == Find("-", s, 1)
        q == IF p > 0 THEN Find("-", s, p + 1) ELSE 0
    IN  IF q > 0 /\ Find("-", s, q + 1) = 0
        THEN <<SubSeq(s, 1, p - 1), SubSeq(s, p + 1, q - 1), SubSeq(s, q + 1, Len(s))>>
        ELSE <<>>

\* datetime.strptime(s, "%Y-%m-%d").date(): None stands for the ValueError
\* raised on a text that is not a date in that format
Strptime(s) ==
    LET f == DateFields(s) IN
    IF /\ Len(f) = 3
       /\ IsDigit(f[1]) /\ Len(f[1]) = 4
       /\ IsDigit(f[2]) /\ Len(f[2]) \in 1..2
       /\ IsDigit(f[3]) /\ Len(f[3]) \in 1..2
    THEN LET y == ParseInt(f[1])
             m == ParseInt(f[2])
             d == ParseInt(f[3])
         IN  IF ValidDate(y, m, d) THEN Some(Ordinal(y, m, d)) ELSE None
    ELSE None

\* (strptime(expiry_date) - today).days
DaysLeft(expiry_date, now) == Val(Strptime(expiry_date)) - now

----------------------------------------------------------------------------
(* Lists.                                                                  *)

Min(a, b) == IF a < b THEN a ELSE b

Max(a, b) == IF a > b THEN a ELSE b

\* seq, whatever n: a list that is never cut
TakeAll(seq, n) == seq

\* seq[:n]
Take(seq, n) == SubSeq(seq, 1, Min(n, Len(seq)))

\* sorted, a list ascending in Key, with x put after the elements whose key
\* is not larger: one step of a stable sort
InsertBy(x, sorted, Key(_)) ==
    LET k == Cardinality({j \in 1..Len(sorted) : Key(sorted[j]) <= Key(x)}) IN
    SubSeq(sorted, 1, k) \o <<x>> \o SubSeq(sorted, k + 1, Len(sorted))

\* the index of the first element of seq that passes Test, 0 when none does
FirstIndex(seq, Test(_)) ==
    IF \E k \in 1..Len(seq) : Test(seq[k])
    THEN CHOOSE k \in 1..Len(seq) : Test(seq[k]) /\ \A j \in 1..(k - 1) : ~Test(seq[j])
    ELSE 0

----------------------------------------------------------------------------
(* The tables (init_db) and the rows the endpoint reads from them.         *)

\* a row of table stock, as dict(row); days_left is the key the dialogue
\* adds to the rows it lists
StockRow(id, manager, name, qty, expiry, price, status) ==
    [stock_id |-> id, manager_id |-> manager, product_name |-> name, quantity |-> qty,
     expiry_date |-> expiry, price |-> price, status |-> status, days_left |-> None]

\* a row of table orders
OrderRow(stock_id, middleman, qty, status) ==
    [stock_id |-> stock_id, middleman_id |-> middleman, quantity |-> qty, status |-> status]

\* the characters of a "%Y-%m-%d" text, in code-point order
DateChars == "-0123456789"

\* a < b as SQLite compares TEXT values: by code point at the first
\* position where they differ, a proper prefix being the smaller
TextLess(a, b) ==
    LET n == Min(Len(a), Len(b))
        d == CHOOSE i \in 1..(n + 1) :
                 /\ i = n + 1 \/ CharAt(a, i) # CharAt(b, i)
                 /\ SubSeq(a, 1, i - 1) = SubSeq(b, 1, i - 1)
    IN  IF d = n + 1 THEN Len(a) < Len(b)
        ELSE IndexIn(CharAt(a, d), DateChars) < IndexIn(CharAt(b, d), DateChars)

RECURSIVE SortByExpiry(_)
\* the rows in ascending order of expiry_date, rows with equal dates in the
\* order of the table
SortByExpiry(rows) ==
    IF Len(rows) = 0 THEN <<>>
    ELSE LET x == rows[Len(rows)]
             sorted == SortByExpiry(SubSeq(rows, 1, Len(rows) - 1))
             k == Cardinality({j \in 1..Len(sorted) : ~TextLess(x.expiry_date, sorted[j].expiry_date)})
         IN  SubSeq(sorted, 1, k) \o <<x>> \o SubSeq(sorted, k + 1, Len(sorted))

\* seq without its k-th element
RemoveAt(seq, k) == SubSeq(seq, 1, k - 1) \o SubSeq(seq, k + 1, Len(seq))

RECURSIVE TieOrders(_)
\* every order of the rows of rows, a list ascending in expiry_date, that is
\* ascending in expiry_date
TieOrders(rows) ==
    IF Len(rows) = 0 THEN {<<>>}
    ELSE UNION {{<<rows[k]>> \o t : t \in TieOrders(RemoveAt(rows, k))} :
                k \in {j \in 1..Len(rows) : rows[j].expiry_date = rows[1].expiry_date}}

\* SELECT ... WHERE Keep ORDER BY expiry_date ASC: every order of the rows
\* that is ascending in expiry_date (SQL leaves the order of rows with equal
\* keys open)
OrderedBy(table, Keep(_)) == TieOrders(SortByExpiry(SelectSeq(table, Keep)))

\* voice_agent's query for a middleman: all stock with status available
AvailableStock(table) == OrderedBy(table, LAMBDA row : row.status = "available")

\* voice_agent's query for a manager: the manager's own stock
ManagerStock(table, user_id) == OrderedBy(table, LAMBDA row : row.manager_id = user_id)

----------------------------------------------------------------------------
(* Contexts and responses.                                                 *)

\* the context {} (no key present)
EmptyContext ==
    [stage |-> None, results |-> None, selected_item |-> None, step |-> None,
     product_name |-> None, quantity |-> None, expiry_date |-> None, price |-> None]

\* {"stage": s}
StageContext(s) == [EmptyContext EXCEPT !.stage = Some(s)]

\* a single item offered as a list of one to select from
SelectionOfOne(item) ==
    [EmptyContext EXCEPT !.stage = Some("awaiting_selection"), !.results = Some(<<item>>)]

\* {"stage": "confirm_order", "selected_item": item}
ConfirmContext(item) == [StageContext("confirm_order") EXCEPT !.selected_item = Some(item)]

\* {"stage": "awaiting_selection", "results": results}
SelectionContext(results) == [StageContext("awaiting_selection") EXCEPT !.results = Some(results)]

\* the dictionary a handler returns, with the statements it executed on the
\* cursor (writes, committed by the handler) and the branch of the code
\* that returned it (rule)
Response(rule, action, data, context) ==
    [rule |-> rule, action |-> action, data |-> data, order |-> None, context |-> context,
     writes |-> <<>>, raised |-> None]

\* an exception no handler catches: the request fails, nothing is committed
\* and the caller receives no new context
Raised(rule, exc, context) ==
    [rule |-> rule, action |-> "", data |-> None, order |-> None, context |-> context,
     writes |-> <<>>, raised |-> Some(exc)]

----------------------------------------------------------------------------
(* The lexicon of process_middleman_voice_query.                           *)

product_keywords ==
    <<"apple", "milk", "bread", "vegetable", "fruit", "dairy", "meat", "fish", "rice", "wheat",
      "oil", "sugar", "orange", "banana", "tomato", "potato", "onion", "chicken", "egg", "cheese",
      "butter", "yogurt">>

greeting_phrases == <<"hello", "hi", "hey", "start", "hi there", "hello there">>

\* the dict number_words, in its iteration (insertion) order
number_words ==
    << <<"1", 0>>, <<"2", 1>>, <<"3", 2>>, <<"4", 3>>, <<"5", 4>>, <<"one", 0>>, <<"first", 0>>,
       <<"two", 1>>, <<"second", 1>>, <<"three", 2>>, <<"third", 2>>, <<"four", 3>>,
       <<"fourth", 3>>, <<"five", 4>>, <<"fifth", 4>> >>

confirm_words == <<"yes", "confirm", "order", "proceed", "ok", "okay">>

order_cancel_words == <<"no", "cancel", "nevermind">>

search_words == <<"find", "search", "looking for", "want", "need", "show", "available", "what", "get", "buy">>

price_words == <<"price", "cost", "cheap", "cheapest", "expensive", "budget">>

urgent_words == <<"expir", "urgent", "critical", "soon">>

middleman_cancel_words == <<"no", "cancel", "nevermind", "stop">>

help_words == <<"help", "how", "what can">>

\* [kw for kw in product_keywords if kw in text]
Mentioned(text) == SelectSeq(product_keywords, LAMBDA kw : Contains(text, kw))

\* any(kw in item['product_name'].lower() for kw in mentioned)
NameHasKeyword(item, mentioned) == ContainsAny(Lower(item.product_name), mentioned)

\* item['days_left'] = (strptime(item['expiry_date']) - today).days
Annotate(item, now) == [item EXCEPT !.days_left = Some(DaysLeft(item.expiry_date, now))]

\* some row's expiry_date makes strptime raise ValueError
BadDate(rows) == \E k \in 1..Len(rows) : Strptime(rows[k].expiry_date) = None

DaysLeftKey(item) == Val(item.days_left)

PriceKey(item) == Val(item.price)

RECURSIVE SortByDaysLeft(_)
\* list.sort(key=lambda x: x['days_left']): stable, ascending
SortByDaysLeft(items) ==
    IF Len(items) = 0 THEN <<>>
    ELSE InsertBy(items[Len(items)], SortByDaysLeft(SubSeq(items, 1, Len(items) - 1)), DaysLeftKey)

RECURSIVE SortByPrice(_)
\* list.sort(key=lambda x: x['price']): stable, ascending
SortByPrice(items) ==
    IF Len(items) = 0 THEN <<>>
    ELSE InsertBy(items[Len(items)], SortByPrice(SubSeq(items, 1, Len(items) - 1)), PriceKey)

RECURSIVE AnnotateAll(_, _)
\* the loop that sets days_left on every item of a list
AnnotateAll(items, now) ==
    IF Len(items) = 0 THEN <<>>
    ELSE <<Annotate(Head(items), now)>> \o AnnotateAll(Tail(items), now)

\* Python truth of a price: neither None nor 0
Truthy(price) == IsSome(price) /\ Val(price) # 0

----------------------------------------------------------------------------
(* process_middleman_voice_query, stage awaiting_selection.                *)

\* the selection with the product name tried before the number words
SelectedIndexNameFirst(text, results) ==
    LET words == Split(text)
        byNumber == FirstIndex(number_words, LAMBDA p : InWords(p[1], words))
        byName == FirstIndex(results, LAMBDA item :
                      \/ Contains(text, Lower(item.product_name))
                      \/ ContainsAny(text, Split(Lower(item.product_name))))
    IN  IF byName > 0 THEN Some(byName - 1)
        ELSE IF byNumber > 0 THEN Some(number_words[byNumber][2])
        ELSE None

\* the selection the reply resolves to, as the 0-based index of the code
SelectedIndex(text, results) ==
    LET words == Split(text)
        byNumber == FirstIndex(number_words, LAMBDA p : InWords(p[1], words))
        byName == FirstIndex(results, LAMBDA item :
                      \/ Contains(text, Lower(item.product_name))
                      \/ ContainsAny(text, Split(Lower(item.product_name))))
    IN  IF byNumber > 0 THEN Some(number_words[byNumber][2])
        ELSE IF byName > 0 THEN Some(byName - 1)
        ELSE None

\* the selection handler with a cancel branch
HandleSelectionCancels(text, context) ==
    LET results == Val(context.results)
        selected_index == SelectedIndex(text, results)
    IN  IF IsSome(selected_index) /\ Val(selected_index) < Len(results)
        THEN LET item == results[Val(selected_index) + 1] IN
             IF item.days_left = None
             THEN Raised("selection", "KeyError", context)
             ELSE Response("selection", "product_selected", Some(item), ConfirmContext(item))
        ELSE IF ContainsAny(text, <<"no", "cancel", "nevermind">>)
        THEN Response("selection", "cancelled", None, StageContext("initial"))
        ELSE Response("selection", "selection_prompt", Some(Take(results, 5)), context)

HandleSelection(text, context) ==
    LET results == Val(context.results)
        selected_index == SelectedIndex(text, results)
    IN  IF IsSome(selected_index) /\ Val(selected_index) < Len(results)
        THEN LET item == results[Val(selected_index) + 1] IN
             IF item.days_left = None
             THEN Raised("selection", "KeyError", context)
             ELSE Response("selection", "product_selected", Some(item), ConfirmContext(item))
        ELSE Response("selection", "selection_prompt", Some(Take(results, 5)), context)

----------------------------------------------------------------------------
(* process_middleman_voice_query, stage confirm_order.                     *)

\* the quantity rounded to tens and never clamped to what the item holds
OrderQtyUnclamped(requested, available) == Max(10, (requested \div 10) * 10)

\* the quantity of the order, from the quantity asked for and the quantity
\* of the selected item
OrderQty(requested, available) ==
    LET rounded == Max(10, (requested \div 10) * 10) IN
    IF rounded > available
    THEN (IF (available \div 10) * 10 = 0 THEN available ELSE (available \div 10) * 10)
    ELSE rounded

\* the writes with the stock never marked ordered
OrderWritesNoStatus(item, user_id, order_qty) ==
    LET new_qty == item.quantity - order_qty IN
    << [op |-> "insert_order", row |-> OrderRow(item.stock_id, user_id, order_qty, "confirmed")],
       [op |-> "update_stock", stock_id |-> item.stock_id,
        quantity |-> IF new_qty <= 0 THEN 0 ELSE new_qty, status |-> None] >>

\* the writes with new_qty < 0 for new_qty <= 0
OrderWritesStrict(item, user_id, order_qty) ==
    LET new_qty == item.quantity - order_qty IN
    << [op |-> "insert_order", row |-> OrderRow(item.stock_id, user_id, order_qty, "confirmed")],
       IF new_qty < 0
       THEN [op |-> "update_stock", stock_id |-> item.stock_id, quantity |-> 0, status |-> Some("ordered")]
       ELSE [op |-> "update_stock", stock_id |-> item.stock_id, quantity |-> new_qty, status |-> None] >>

\* the writes with the UPDATE landing on the row after the selected one
OrderWritesNextRow(item, user_id, order_qty) ==
    LET new_qty == item.quantity - order_qty IN
    << [op |-> "insert_order", row |-> OrderRow(item.stock_id, user_id, order_qty, "confirmed")],
       IF new_qty <= 0
       THEN [op |-> "update_stock", stock_id |-> item.stock_id + 1, quantity |-> 0, status |-> Some("ordered")]
       ELSE [op |-> "update_stock", stock_id |-> item.stock_id + 1, quantity |-> new_qty, status |-> None] >>

\* the INSERT INTO orders and the UPDATE stock of a confirmed order
OrderWrites(item, user_id, order_qty) ==
    LET new_qty == item.quantity - order_qty IN
    << [op |-> "insert_order", row |-> OrderRow(item.stock_id, user_id, order_qty, "confirmed")],
       IF new_qty <= 0
       THEN [op |-> "update_stock", stock_id |-> item.stock_id, quantity |-> 0, status |-> Some("ordered")]
       ELSE [op |-> "update_stock", stock_id |-> item.stock_id, quantity |-> new_qty, status |-> None] >>

\* the confirmation committing on every reply that holds no cancel word
HandleConfirmationEager(text, context, user_id) ==
    LET item == Val(context.selected_item)
        quantity == FirstDigitWord(Split(text))
    IN  IF ~ContainsAny(text, order_cancel_words)
        THEN LET requested == IF IsSome(quantity) /\ Val(quantity) # 0 THEN Val(quantity) ELSE item.quantity
                 order_qty == OrderQty(requested, item.quantity)
             IN  [Response("confirmation", "order_confirmed", None, StageContext("completed"))
                    EXCEPT !.order = Some([stock_id |-> item.stock_id, quantity |-> order_qty]),
                           !.writes = OrderWrites(item, user_id, order_qty)]
        ELSE Response("confirmation", "cancelled", None, StageContext("initial"))

HandleConfirmation(text, context, user_id) ==
    LET item == Val(context.selected_item)
        quantity == FirstDigitWord(Split(text))
    IN  IF ContainsAny(text, confirm_words)
        THEN LET requested == IF IsSome(quantity) /\ Val(quantity) # 0 THEN Val(quantity) ELSE item.quantity
                 order_qty == OrderQty(requested, item.quantity)
             IN  [Response("confirmation", "order_confirmed", None, StageContext("completed"))
                    EXCEPT !.order = Some([stock_id |-> item.stock_id, quantity |-> order_qty]),
                           !.writes = OrderWrites(item, user_id, order_qty)]
        ELSE IF ContainsAny(text, order_cancel_words)
        THEN Response("confirmation", "cancelled", None, StageContext("initial"))
        ELSE Response("confirmation", "awaiting_confirmation", None, context)

----------------------------------------------------------------------------
(* process_middleman_voice_query, the intent rules.                        *)

\* the expiry window a search text asks for, in days
ExpiryFilter(text) ==
    IF Contains(text, "this week") \/ Contains(text, "week") THEN Some(7)
    ELSE IF Contains(text, "today") THEN Some(1)
    ELSE IF Contains(text, "tomorrow") THEN Some(2)
    ELSE IF Contains(text, "soon") \/ Contains(text, "expiring") THEN Some(5)
    ELSE None

\* the rows a search keeps, each with its days_left, in the order of view
ProductsFound(text, view, now) ==
    LET mentioned_products == Mentioned(text)
        expiry_filter == ExpiryFilter(text)
        keep(item) ==
            /\ Len(mentioned_products) > 0 => NameHasKeyword(item, mentioned_products)
            /\ ~(IsSome(expiry_filter) /\ DaysLeft(item.expiry_date, now) > Val(expiry_filter))
    IN  AnnotateAll(SelectSeq(view, keep), now)

\* the search with an empty result sending the caller back to the start
MiddlemanSearchResets(text, view, context, now) ==
    IF BadDate(view) THEN Raised("search", "ValueError", context)
    ELSE LET products_found == SortByDaysLeft(ProductsFound(text, view, now)) IN
         IF Len(products_found) = 0
         THEN Response("search", "no_results", None, StageContext("initial"))
         ELSE IF Len(products_found) = 1
         THEN Response("search", "single_result", Some(products_found[1]), ConfirmContext(products_found[1]))
         ELSE Response("search", "multiple_results", Some(Take(products_found, 5)),
                       SelectionContext(Take(products_found, 5)))

MiddlemanSearch(text, view, context, now) ==
    IF BadDate(view) THEN Raised("search", "ValueError", context)
    ELSE LET products_found == SortByDaysLeft(ProductsFound(text, view, now)) IN
         IF Len(products_found) = 0
         THEN Response("search", "no_results", None, StageContext("search_failed"))
         ELSE IF Len(products_found) = 1
         THEN Response("search", "single_result", Some(products_found[1]), ConfirmContext(products_found[1]))
         ELSE Response("search", "multiple_results", Some(Take(products_found, 5)),
                       SelectionContext(Take(products_found, 5)))

\* the price rule counting a price of 0 as a price
MiddlemanPriceWithZero(view, context, now) ==
    LET priced == SelectSeq(view, LAMBDA item : IsSome(item.price)) IN
    IF Len(priced) > 0
    THEN IF BadDate(priced) THEN Raised("price", "ValueError", context)
         ELSE LET priced_stock == SortByPrice(AnnotateAll(priced, now))
                  cheapest == priced_stock[1]
              IN  Response("price", "price_info", Some(cheapest), ConfirmContext(cheapest))
    ELSE Response("price", "no_price_info", None, StageContext("initial"))

MiddlemanPrice(view, context, now) ==
    LET priced == SelectSeq(view, LAMBDA item : Truthy(item.price)) IN
    IF Len(priced) > 0
    THEN IF BadDate(priced) THEN Raised("price", "ValueError", context)
         ELSE LET priced_stock == SortByPrice(AnnotateAll(priced, now))
                  cheapest == priced_stock[1]
              IN  Response("price", "price_info", Some(cheapest), ConfirmContext(cheapest))
    ELSE Response("price", "no_price_info", None, StageContext("initial"))

MiddlemanUrgent(view, context, now) ==
    IF BadDate(view) THEN Raised("urgency", "ValueError", context)
    ELSE LET soon == SelectSeq(view, LAMBDA item : DaysLeft(item.expiry_date, now) <= 3)
             urgent_stock == SortByDaysLeft(AnnotateAll(soon, now))
         IN  IF Len(urgent_stock) = 0
             THEN Response("urgency", "no_urgent", None, StageContext("initial"))
             ELSE IF Len(urgent_stock) = 1
             THEN Response("urgency", "single_urgent", Some(urgent_stock[1]), ConfirmContext(urgent_stock[1]))
             ELSE Response("urgency", "urgent_stock", Some(Take(urgent_stock, 5)),
                           SelectionContext(Take(urgent_stock, 5)))

\* 'results' in context: the key alone, whatever the list holds
HasResultsKey(context) == IsSome(context.results)

\* context.get('results') and context.get('selected_item') as conditions
HasResults(context) == IsSome(context.results) /\ Len(Val(context.results)) > 0

HasSelectedItem(context) == IsSome(context.selected_item)

\* the intent rules with the urgency rule ahead of the search
MiddlemanUrgencyFirst(text, view, context, user_id, now) ==
    IF context.stage = Some("awaiting_selection") /\ HasResults(context)
    THEN HandleSelection(text, context)
    ELSE IF context.stage = Some("confirm_order") /\ HasSelectedItem(context)
    THEN HandleConfirmation(text, context, user_id)
    ELSE IF InWords(Strip(text), greeting_phrases)
    THEN Response("greeting", "greeting", None, StageContext("initial"))
    ELSE IF ContainsAny(text, urgent_words)
    THEN MiddlemanUrgent(view, context, now)
    ELSE IF ContainsAny(text, search_words) \/ Len(Mentioned(text)) > 0
    THEN MiddlemanSearch(text, view, context, now)
    ELSE IF ContainsAny(text, price_words)
    THEN MiddlemanPrice(view, context, now)
    ELSE IF ContainsAny(text, middleman_cancel_words)
    THEN Response("cancel", "cancelled", None, StageContext("initial"))
    ELSE IF ContainsAny(text, help_words)
    THEN Response("help", "help", None, StageContext("initial"))
    ELSE Response("default", "default", None, StageContext("initial"))

\* the whole function: text is lower-cased and stripped, view is the
\* available stock read by voice_agent
process_middleman_voice_query(text, view, context, user_id, now) ==
    IF context.stage = Some("awaiting_selection") /\ HasResults(context)
    THEN HandleSelection(text, context)
    ELSE IF context.stage = Some("confirm_order") /\ HasSelectedItem(context)
    THEN HandleConfirmation(text, context, user_id)
    ELSE IF InWords(Strip(text), greeting_phrases)
    THEN Response("greeting", "greeting", None, StageContext("initial"))
    ELSE IF ContainsAny(text, search_words) \/ Len(Mentioned(text)) > 0
    THEN MiddlemanSearch(text, view, context, now)
    ELSE IF ContainsAny(text, price_words)
    THEN MiddlemanPrice(view, context, now)
    ELSE IF ContainsAny(text, urgent_words)
    THEN MiddlemanUrgent(view, context, now)
    ELSE IF ContainsAny(text, middleman_cancel_words)
    THEN Response("cancel", "cancelled", None, StageContext("initial"))
    ELSE IF ContainsAny(text, help_words)
    THEN Response("help", "help", None, StageContext("initial"))
    ELSE Response("default", "default", None, StageContext("initial"))

----------------------------------------------------------------------------
(* handle_add_stock_flow: the add-stock wizard.                            *)

\* the cancel words without nevermind
wizard_cancel_words_short == <<"cancel", "stop">>

wizard_cancel_words == <<"cancel", "stop", "nevermind">>

\* the dict number_words of the quantity step, in its iteration order
quantity_words ==
    << <<"one", 1>>, <<"two", 2>>, <<"three", 3>>, <<"four", 4>>, <<"five", 5>>, <<"ten", 10>>,
       <<"twenty", 20>>, <<"thirty", 30>>, <<"forty", 40>>, <<"fifty", 50>>, <<"hundred", 100>> >>

\* the dict months
months ==
    << <<"january", 1>>, <<"february", 2>>, <<"march", 3>>, <<"april", 4>>, <<"may", 5>>,
       <<"june", 6>>, <<"july", 7>>, <<"august", 8>>, <<"september", 9>>, <<"october", 10>>,
       <<"november", 11>>, <<"december", 12>>, <<"jan", 1>>, <<"feb", 2>>, <<"mar", 3>>,
       <<"apr", 4>>, <<"jun", 6>>, <<"jul", 7>>, <<"aug", 8>>, <<"sep", 9>>, <<"oct", 10>>,
       <<"nov", 11>>, <<"dec", 12>> >>

stock_confirm_words == <<"yes", "confirm", "add", "ok", "okay", "correct">>

\* the value of key w in a dict given as a list of pairs, 0 when absent
Lookup(dict, w) ==
    IF \E k \in 1..Len(dict) : dict[k][1] = w
    THEN dict[CHOOSE k \in 1..Len(dict) : dict[k][1] = w][2]
    ELSE 0

\* the quantity step reading digits only
WizardQuantityDigitsOnly(text) == FirstDigitWord(Split(text))

\* the quantity step: the first digit word, else the first number word (in
\* dict order) that occurs in the text; None when there is neither
WizardQuantity(text) ==
    LET quantity == FirstDigitWord(Split(text))
        byWord == FirstIndex(quantity_words, LAMBDA p : Contains(text, p[1]))
    IN  IF IsSome(quantity) /\ Val(quantity) # 0 THEN quantity
        ELSE IF byWord > 0 THEN Some(quantity_words[byWord][2])
        ELSE quantity

RECURSIVE LastMonth(_, _)
\* the month of the last word that is a month name, 0 when there is none
LastMonth(words, k) ==
    IF k = 0 THEN 0
    ELSE IF Lookup(months, words[k]) > 0 THEN Lookup(months, words[k])
    ELSE LastMonth(words, k - 1)

RECURSIVE LastDay(_, _)
\* the last word that is no month name and is a number within 1..31, 0 when
\* there is none
LastDay(words, k) ==
    IF k = 0 THEN 0
    ELSE IF Lookup(months, words[k]) = 0 /\ IsDigit(words[k]) /\ ParseInt(words[k]) \in 1..31
         THEN ParseInt(words[k])
         ELSE LastDay(words, k - 1)

\* the expiry_date step with every month and day taken in the current year
WizardExpiryThisYear(text, now) ==
    IF Contains(text, "today") THEN Some(now)
    ELSE IF Contains(text, "tomorrow") THEN Some(now + 1)
    ELSE IF Contains(text, "next week") \/ Contains(text, "in a week") THEN Some(now + 7)
    ELSE IF Contains(text, "in") /\ Contains(text, "day")
    THEN LET days == FirstDigitWord(Split(text)) IN
         IF IsSome(days) THEN Some(now + Val(days)) ELSE None
    ELSE LET words == Split(text)
             month == LastMonth(words, Len(words))
             day == LastDay(words, Len(words))
             year == YearOf(now)
         IN  IF month # 0 /\ day # 0 /\ ValidDate(year, month, day)
             THEN Some(Ordinal(year, month, day))
             ELSE None

\* the expiry_date step rolling to next year for an earlier month only,
\* not for an earlier day of the current month
WizardExpiryRollsByMonth(text, now) ==
    IF Contains(text, "today") THEN Some(now)
    ELSE IF Contains(text, "tomorrow") THEN Some(now + 1)
    ELSE IF Contains(text, "next week") \/ Contains(text, "in a week") THEN Some(now + 7)
    ELSE IF Contains(text, "in") /\ Contains(text, "day")
    THEN LET days == FirstDigitWord(Split(text)) IN
         IF IsSome(days) THEN Some(now + Val(days)) ELSE None
    ELSE LET words == Split(text)
             month == LastMonth(words, Len(words))
             day == LastDay(words, Len(words))
             year == IF month < MonthOf(now) THEN YearOf(now) + 1 ELSE YearOf(now)
         IN  IF month # 0 /\ day # 0 /\ ValidDate(year, month, day)
             THEN Some(Ordinal(year, month, day))
             ELSE None

\* the expiry_date step: Some(date), None when the text holds no date
\* (re-prompt), or "overflow" when the date arithmetic raises OverflowError
WizardExpiry(text, now) ==
    IF Contains(text, "today") THEN Some(now)
    ELSE IF Contains(text, "tomorrow") THEN Some(now + 1)
    ELSE IF Contains(text, "next week") \/ Contains(text, "in a week") THEN Some(now + 7)
    ELSE IF Contains(text, "in") /\ Contains(text, "day")
    THEN LET days == FirstDigitWord(Split(text)) IN
         IF IsSome(days) THEN Some(now + Val(days)) ELSE None
    ELSE LET words == Split(text)
             month == LastMonth(words, Len(words))
             day == LastDay(words, Len(words))
             year == IF month < MonthOf(now) \/ (month = MonthOf(now) /\ day < DayOf(now))
                     THEN YearOf(now) + 1 ELSE YearOf(now)
         IN  IF month # 0 /\ day # 0 /\ ValidDate(year, month, day)
             THEN Some(Ordinal(year, month, day))
             ELSE None

RECURSIVE Remove(_, _)
\* s.replace(sub, '')
Remove(s, sub) ==
    IF Len(s) < Len(sub) THEN s
    ELSE IF SubSeq(s, 1, Len(sub)) = sub THEN Remove(SubSeq(s, Len(sub) + 1, Len(s)), sub)
    ELSE CharAt(s, 1) \o Remove(SubSeq(s, 2, Len(s)), sub)

\* float(w), as a number of hundredths, for w in decimal notation with at
\* most two decimals ([+-]digits[.digits]); None stands for ValueError.
\* (float() also reads exponents, inf and nan: not among the texts here.)
ParseFloat(w) ==
    LET signed == Len(w) > 0 /\ CharAt(w, 1) \in {"+", "-"}
        body == IF signed THEN SubSeq(w, 2, Len(w)) ELSE w
        dot == IndexIn(".", body)
        whole == IF dot > 0 THEN SubSeq(body, 1, dot - 1) ELSE body
        frac == IF dot > 0 THEN SubSeq(body, dot + 1, Len(body)) ELSE ""
        wellFormed == /\ Len(whole) + Len(frac) > 0
                      /\ Len(whole) > 0 => IsDigit(whole)
                      /\ Len(frac) > 0 => IsDigit(frac)
                      /\ Len(frac) <= 2
        hundredths == ParseInt(whole) * 100 + (IF Len(frac) = 1 THEN ParseInt(frac) * 10 ELSE ParseInt(frac))
    IN  IF ~wellFormed THEN None
        ELSE IF signed /\ CharAt(w, 1) = "-" THEN Some(0 - hundredths)
        ELSE Some(hundredths)

\* the price step reading the words with their currency signs
WizardPriceKeepsSigns(text) ==
    IF Contains(text, "skip") \/ Contains(text, "no price") \/ Strip(text) = "no" THEN None
    ELSE LET words == Split(text)
             k == FirstIndex(words, LAMBDA w : IsSome(ParseFloat(w)))
         IN  IF k > 0 THEN ParseFloat(words[k]) ELSE None

\* the price step: None for skip / no price / no, else the first word that
\* float() reads, None when there is none
WizardPrice(text) ==
    IF Contains(text, "skip") \/ Contains(text, "no price") \/ Strip(text) = "no" THEN None
    ELSE LET words == Split(Remove(Remove(Remove(Remove(text, "₹"), "$"), "rupees"), "rupee"))
             k == FirstIndex(words, LAMBDA w : IsSome(ParseFloat(w)))
         IN  IF k > 0 THEN ParseFloat(words[k]) ELSE None

\* the confirm step leaving the wizard's context in place after the INSERT
WizardCommitKeepsContext(context, user_id, now) ==
    IF context.expiry_date = None THEN Raised("wizard", "TypeError", context)
    ELSE IF Strptime(Val(context.expiry_date)) = None THEN Raised("wizard", "ValueError", context)
    ELSE IF context.product_name = None \/ context.quantity = None
    THEN Raised("wizard", "IntegrityError", context)
    ELSE LET status == IF Val(Strptime(Val(context.expiry_date))) < now THEN "expired" ELSE "available" IN
         [Response("wizard", "stock_added",
                   Some([product_name |-> context.product_name, quantity |-> context.quantity,
                         expiry_date |-> context.expiry_date, price |-> context.price]),
                   context)
            EXCEPT !.writes = << [op |-> "insert_stock", manager_id |-> user_id,
                                  product_name |-> Val(context.product_name),
                                  quantity |-> Val(context.quantity),
                                  expiry_date |-> Val(context.expiry_date),
                                  price |-> context.price, status |-> status] >>]

\* the confirm step storing every item as available
WizardCommitAlwaysAvailable(context, user_id, now) ==
    IF context.expiry_date = None THEN Raised("wizard", "TypeError", context)
    ELSE IF Strptime(Val(context.expiry_date)) = None THEN Raised("wizard", "ValueError", context)
    ELSE IF context.product_name = None \/ context.quantity = None
    THEN Raised("wizard", "IntegrityError", context)
    ELSE LET status == "available" IN
         [Response("wizard", "stock_added",
                   Some([product_name |-> context.product_name, quantity |-> context.quantity,
                         expiry_date |-> context.expiry_date, price |-> context.price]),
                   StageContext("initial"))
            EXCEPT !.writes = << [op |-> "insert_stock", manager_id |-> user_id,
                                  product_name |-> Val(context.product_name),
                                  quantity |-> Val(context.quantity),
                                  expiry_date |-> Val(context.expiry_date),
                                  price |-> context.price, status |-> status] >>]

\* the confirm step on an affirmation: the INSERT INTO stock
WizardCommit(context, user_id, now) ==
    IF context.expiry_date = None THEN Raised("wizard", "TypeError", context)
    ELSE IF Strptime(Val(context.expiry_date)) = None THEN Raised("wizard", "ValueError", context)
    ELSE IF context.product_name = None \/ context.quantity = None
    THEN Raised("wizard", "IntegrityError", context)
    ELSE LET status == IF Val(Strptime(Val(context.expiry_date))) < now THEN "expired" ELSE "available" IN
         [Response("wizard", "stock_added",
                   Some([product_name |-> context.product_name, quantity |-> context.quantity,
                         expiry_date |-> context.expiry_date, price |-> context.price]),
                   StageContext("initial"))
            EXCEPT !.writes = << [op |-> "insert_stock", manager_id |-> user_id,
                                  product_name |-> Val(context.product_name),
                                  quantity |-> Val(context.quantity),
                                  expiry_date |-> Val(context.expiry_date),
                                  price |-> context.price, status |-> status] >>]

\* the wizard going from the expiry date straight to the confirmation
WizardSkippingPrice(text, context, user_id, now) ==
    LET step == IF IsSome(context.step) THEN Val(context.step) ELSE "product_name" IN
    IF ContainsAny(text, wizard_cancel_words)
    THEN Response("wizard", "cancelled", None, StageContext("initial"))
    ELSE IF step = "product_name"
    THEN LET product_name == Title(Strip(text)) IN
         IF Len(product_name) < 2
         THEN Response("wizard", "retry_product", None, context)
         ELSE Response("wizard", "add_stock_product", None,
                       [StageContext("adding_stock") EXCEPT !.step = Some("quantity"),
                                                            !.product_name = Some(product_name)])
    ELSE IF step = "quantity"
    THEN LET quantity == WizardQuantity(text) IN
         IF quantity = None \/ Val(quantity) <= 0
         THEN Response("wizard", "retry_quantity", None, context)
         ELSE Response("wizard", "add_stock_quantity", None,
                       [context EXCEPT !.quantity = quantity, !.step = Some("expiry_date")])
    ELSE IF step = "expiry_date"
    THEN LET expiry_date == WizardExpiry(text, now) IN
         IF expiry_date = None
         THEN Response("wizard", "retry_expiry", None, context)
         ELSE IF Val(expiry_date) > MaxOrdinal
         THEN Raised("wizard", "OverflowError", context)
         ELSE Response("wizard", "add_stock_expiry", None,
                       [context EXCEPT !.expiry_date = Some(Strftime(Val(expiry_date))),
                                       !.step = Some("confirm")])
    ELSE IF step = "price"
    THEN Response("wizard", "add_stock_confirm", None,
                  [context EXCEPT !.price = WizardPrice(text), !.step = Some("confirm")])
    ELSE IF step = "confirm"
    THEN IF ContainsAny(text, stock_confirm_words)
         THEN WizardCommit(context, user_id, now)
         ELSE Response("wizard", "awaiting_confirm", None, context)
    ELSE Response("wizard", "error", None, StageContext("initial"))

handle_add_stock_flow(text, context, user_id, now) ==
    LET step == IF IsSome(context.step) THEN Val(context.step) ELSE "product_name" IN
    IF ContainsAny(text, wizard_cancel_words)
    THEN Response("wizard", "cancelled", None, StageContext("initial"))
    ELSE IF step = "product_name"
    THEN LET product_name == Title(Strip(text)) IN
         IF Len(product_name) < 2
         THEN Response("wizard", "retry_product", None, context)
         ELSE Response("wizard", "add_stock_product", None,
                       [StageContext("adding_stock") EXCEPT !.step = Some("quantity"),
                                                            !.product_name = Some(product_name)])
    ELSE IF step = "quantity"
    THEN LET quantity == WizardQuantity(text) IN
         IF quantity = None \/ Val(quantity) <= 0
         THEN Response("wizard", "retry_quantity", None, context)
         ELSE Response("wizard", "add_stock_quantity", None,
                       [context EXCEPT !.quantity = quantity, !.step = Some("expiry_date")])
    ELSE IF step = "expiry_date"
    THEN LET expiry_date == WizardExpiry(text, now) IN
         IF expiry_date = None
         THEN Response("wizard", "retry_expiry", None, context)
         ELSE IF Val(expiry_date) > MaxOrdinal
         THEN Raised("wizard", "OverflowError", context)
         ELSE Response("wizard", "add_stock_expiry", None,
                       [context EXCEPT !.expiry_date = Some(Strftime(Val(expiry_date))),
                                       !.step = Some("price")])
    ELSE IF step = "price"
    THEN Response("wizard", "add_stock_confirm", None,
                  [context EXCEPT !.price = WizardPrice(text), !.step = Some("confirm")])
    ELSE IF step = "confirm"
    THEN IF ContainsAny(text, stock_confirm_words)
         THEN WizardCommit(context, user_id, now)
         ELSE Response("wizard", "awaiting_confirm", None, context)
    ELSE Response("wizard", "error", None, StageContext("initial"))

----------------------------------------------------------------------------
(* process_manager_voice_query.                                            *)

add_stock_phrases == <<"add stock", "add item", "add product", "new stock", "new item", "create stock", "add new">>

add_verbs == <<"add", "create", "new">>

summary_words == <<"summary", "overview", "status", "how much", "total">>

manager_urgent_words == <<"expir", "urgent", "soon", "critical">>

manager_search_words == <<"find", "search", "show", "check">>

manager_help_words == <<"help", "what can", "how">>

manager_cancel_words == <<"cancel", "stop", "nevermind", "no">>

\* the quick add that turns down a text without a quantity
ManagerQuickAddNeedsDigit(text, mentioned) ==
    LET product_name == Title(mentioned[1])
        quantity == FirstDigitWord(Split(text))
    IN  IF IsSome(quantity) /\ Val(quantity) # 0
        THEN Response("quick_add", "add_stock_quantity", None,
                      [StageContext("adding_stock") EXCEPT !.step = Some("expiry_date"),
                                                           !.product_name = Some(product_name),
                                                           !.quantity = quantity])
        ELSE Response("quick_add", "default", None, StageContext("initial"))

\* the quick add going to the expiry date without keeping the quantity
ManagerQuickAddDropsQuantity(text, mentioned) ==
    LET product_name == Title(mentioned[1])
        quantity == FirstDigitWord(Split(text))
    IN  IF IsSome(quantity) /\ Val(quantity) # 0
        THEN Response("quick_add", "add_stock_quantity", None,
                      [StageContext("adding_stock") EXCEPT !.step = Some("expiry_date"),
                                                           !.product_name = Some(product_name)])
        ELSE Response("quick_add", "add_stock_product", None,
                      [StageContext("adding_stock") EXCEPT !.step = Some("quantity"),
                                                           !.product_name = Some(product_name)])

\* the quick add: the first mentioned product and the first digit word
ManagerQuickAdd(text, mentioned) ==
    LET product_name == Title(mentioned[1])
        quantity == FirstDigitWord(Split(text))
    IN  IF IsSome(quantity) /\ Val(quantity) # 0
        THEN Response("quick_add", "add_stock_quantity", None,
                      [StageContext("adding_stock") EXCEPT !.step = Some("expiry_date"),
                                                           !.product_name = Some(product_name),
                                                           !.quantity = quantity])
        ELSE Response("quick_add", "add_stock_product", None,
                      [StageContext("adding_stock") EXCEPT !.step = Some("quantity"),
                                                           !.product_name = Some(product_name)])

ManagerSummary(view, context, now) ==
    LET available == SelectSeq(view, LAMBDA item : item.status = "available")
        expired == SelectSeq(view, LAMBDA item : item.status = "expired")
        ordered == SelectSeq(view, LAMBDA item : item.status = "ordered")
        urgent == SelectSeq(available, LAMBDA item : DaysLeft(item.expiry_date, now) <= 3)
    IN  IF BadDate(available) THEN Raised("summary", "ValueError", context)
        ELSE Response("summary", "summary",
                      Some([available |-> Len(available), ordered |-> Len(ordered),
                            expired |-> Len(expired), urgent |-> Len(urgent)]),
                      StageContext("initial"))

\* the urgency rule counting the items of every status
ManagerUrgentAnyStatus(view, context, now) ==
    IF BadDate(view) THEN Raised("urgency", "ValueError", context)
    ELSE LET soon == SelectSeq(view, LAMBDA item : DaysLeft(item.expiry_date, now) <= 7)
             urgent_items == SortByDaysLeft(AnnotateAll(soon, now))
         IN  IF Len(urgent_items) = 0
             THEN Response("urgency", "no_urgent", None, StageContext("initial"))
             ELSE Response("urgency", "urgent_items", Some(Take(urgent_items, 5)), StageContext("initial"))

ManagerUrgent(view, context, now) ==
    LET available == SelectSeq(view, LAMBDA item : item.status = "available") IN
    IF BadDate(available) THEN Raised("urgency", "ValueError", context)
    ELSE LET soon == SelectSeq(available, LAMBDA item : DaysLeft(item.expiry_date, now) <= 7)
             urgent_items == SortByDaysLeft(AnnotateAll(soon, now))
         IN  IF Len(urgent_items) = 0
             THEN Response("urgency", "no_urgent", None, StageContext("initial"))
             ELSE Response("urgency", "urgent_items", Some(Take(urgent_items, 5)), StageContext("initial"))

ManagerSearch(view, mentioned, context, now) ==
    LET matching == IF Len(mentioned) > 0
                    THEN SelectSeq(view, LAMBDA item : NameHasKeyword(item, mentioned))
                    ELSE view
    IN  IF BadDate(matching) THEN Raised("search", "ValueError", context)
        ELSE LET found == SortByDaysLeft(AnnotateAll(matching, now)) IN
             IF Len(found) = 0
             THEN Response("search", "no_results", None, StageContext("initial"))
             ELSE Response("search", "search_results", Some(Take(found, 5)), StageContext("initial"))

\* the whole function: text is lower-cased and stripped, view is the
\* manager's own stock read by voice_agent
process_manager_voice_query(text, view, context, user_id, now) ==
    LET mentioned == Mentioned(text) IN
    IF context.stage = Some("adding_stock")
    THEN handle_add_stock_flow(text, context, user_id, now)
    ELSE IF InWords(Strip(text), greeting_phrases)
    THEN Response("greeting", "greeting", None, StageContext("initial"))
    ELSE IF ContainsAny(text, add_stock_phrases)
    THEN Response("add_stock", "add_stock_start", None,
                  [StageContext("adding_stock") EXCEPT !.step = Some("product_name")])
    ELSE IF Len(mentioned) > 0 /\ ContainsAny(text, add_verbs)
    THEN ManagerQuickAdd(text, mentioned)
    ELSE IF ContainsAny(text, summary_words)
    THEN ManagerSummary(view, context, now)
    ELSE IF ContainsAny(text, manager_urgent_words)
    THEN ManagerUrgent(view, context, now)
    ELSE IF Len(mentioned) > 0 \/ ContainsAny(text, manager_search_words)
    THEN ManagerSearch(view, mentioned, context, now)
    ELSE IF ContainsAny(text, manager_help_words)
    THEN Response("help", "help", None, StageContext("initial"))
    ELSE IF ContainsAny(text, manager_cancel_words)
    THEN Response("cancel", "cancelled", None, StageContext("initial"))
    ELSE Response("default", "default", None, StageContext("initial"))

----------------------------------------------------------------------------
(* The statements a handler executes, applied to the tables.               *)

\* the statements with UPDATE stock guarded by status = 'available'
ExecuteOnAvailable(db, w) ==
    IF w.op = "insert_order" THEN [db EXCEPT !.orders = Append(db.orders, w.row)]
    ELSE IF w.op = "update_stock"
    THEN [db EXCEPT !.stock =
            [i \in 1..Len(db.stock) |->
                IF db.stock[i].stock_id = w.stock_id /\ db.stock[i].status = "available"
                THEN [db.stock[i] EXCEPT !.quantity = w.quantity,
                                         !.status = IF IsSome(w.status) THEN Val(w.status) ELSE @]
                ELSE db.stock[i]]]
    ELSE [db EXCEPT !.stock = Append(db.stock,
            StockRow(Len(db.stock) + 1, w.manager_id, w.product_name, w.quantity,
                     w.expiry_date, w.price, w.status))]

\* cursor.execute(...) of one statement on the tables db
Execute(db, w) ==
    IF w.op = "insert_order" THEN [db EXCEPT !.orders = Append(db.orders, w.row)]
    ELSE IF w.op = "update_stock"
    THEN [db EXCEPT !.stock =
            [i \in 1..Len(db.stock) |->
                IF db.stock[i].stock_id = w.stock_id
                THEN [db.stock[i] EXCEPT !.quantity = w.quantity,
                                         !.status = IF IsSome(w.status) THEN Val(w.status) ELSE @]
                ELSE db.stock[i]]]
    ELSE [db EXCEPT !.stock = Append(db.stock,
            StockRow(Len(db.stock) + 1, w.manager_id, w.product_name, w.quantity,
                     w.expiry_date, w.price, w.status))]

RECURSIVE ExecuteAll(_, _)
ExecuteAll(db, writes) ==
    IF Len(writes) = 0 THEN db ELSE ExecuteAll(Execute(db, Head(writes)), Tail(writes))

----------------------------------------------------------------------------
(* The callers and what the model starts from.                             *)

Middlemen == {"m1", "m2"}

Managers == {"s1"}

\* the role a caller's client sends (input.role or 'middleman')
RoleOf(user_id) == IF user_id \in Managers THEN "manager" ELSE "middleman"

\* date.today() at the start
Today0 == Ordinal(2026, 11, 5)

\* the stock table at the start: rows as create_stock, upload_csv and
\* earlier orders leave them
InitialStock ==
    << StockRow(1, "s1", "Milk", 10, "2026-11-06", Some(3000), "available"),
       StockRow(2, "s1", "Apple", 50, "2026-11-07", Some(2000), "available"),
       StockRow(3, "s2", "Green Apple", 40, "2026-11-11", None, "available"),
       StockRow(4, "s1", "Rice", 0, "2026-11-15", Some(1500), "available"),
       StockRow(5, "s1", "Bread", 20, "2026-11-05", Some(0), "available"),
       StockRow(6, "s1", "Fish", 30, "2026-11-03", Some(500), "expired"),
       StockRow(7, "s2", "Butter", 25, "2026-11-07", Some(4500), "available"),
       StockRow(8, "s1", "Cheese", 7, "2026-11-20", Some(1000), "available"),
       StockRow(9, "s1", "Sugar", 0, "2026-11-30", None, "ordered") >>

\* no turn yet
NoTurn ==
    [user_id |-> "", role |-> "", text |-> "", context |-> EmptyContext,
     view |-> <<>>, stock |-> <<>>, orders |-> <<>>, today |-> 0,
     out |-> Response("none", "", None, EmptyContext)]

----------------------------------------------------------------------------
(* Bounds of the model and the inputs it enumerates.                       *)

\* orders committed in one behaviour
MaxOrders == 2

\* stock items added through the wizard in one behaviour
MaxAdded == 1

\* days that pass in one behaviour
MaxDays == 1

\* largest quantity of a caller-supplied item snapshot or request
MaxQty == 55

\* what a middleman says in a conversation
BuyerTexts == {"milk", "rice", "apple", "1", " Confirm ", "ok 20", "no"}

\* what a manager says in a conversation
SellerTexts ==
    {"add stock", "add 5 apple", "find apple", "tomato", "30", "in 2 days", "skip", "25", "yes", "cancel"}

\* the replies "confirm <n>" for every quantity n
QuantityTexts == {"confirm " \o ToString(n) : n \in 0..MaxQty}

\* further texts for single turns
OtherTexts ==
    {"", "Hello", "hi", "show", "fish", "rice", "second", "butter", "cheapest", "urgent", "help",
     "thanks", "add apple", "summary", "expiring soon", "find fruit", "march 1", "6", "second 1",
     "green", "green apple", "apple 2", "show this week", "find fish", "what is urgent",
     "price help", "stop help", "order", "nevermind", "7", "no 20 ok", "cancel order",
     "0", "thirty", "0 thirty", "in 10 days", "november 4", "november 5", "february 30",
     "-5", "no price", "$2.5 each", "add 0 apple",
     "urgent cost", "status soon", "hi milk"}

SpokenTexts == BuyerTexts \cup SellerTexts \cup OtherTexts

\* the rows of the table a middleman's search lists, with their days_left
Snapshots(table, now) ==
    LET view == CHOOSE v \in AvailableStock(table) : TRUE IN
    [k \in 1..Len(view) |-> Annotate(view[k], now)]

\* the values context.stage is given in the model
Stages == {"initial", "search_failed", "completed", "awaiting_selection", "confirm_order", "adding_stock", "unknown"}

\* the contexts a caller may send: the engine keeps no session, the context
\* is whatever the request carries.  A snapshot may be of any row, whatever
\* its status has become since, and may carry any quantity.
BareContexts == {EmptyContext} \cup {StageContext(st) : st \in Stages}

ConfirmContexts(table, now) ==
    LET snaps == Snapshots(table, now) IN
    {ConfirmContext([snaps[1] EXCEPT !.quantity = a]) : a \in 0..MaxQty}
    \cup {ConfirmContext(Annotate(table[k], now)) : k \in 1..Len(table)}
    \cup {ConfirmContext([Annotate(table[k], now) EXCEPT !.quantity = 45]) : k \in 1..Len(table)}
    \cup {[ConfirmContext(snaps[1]) EXCEPT !.stage = Some(st)] : st \in {"initial", "awaiting_selection"}}

SelectionContexts(table, now) ==
    LET snaps == Snapshots(table, now) IN
    {SelectionContext(SubSeq(snaps, 1, n)) : n \in 0..Len(snaps)}
    \cup {SelectionContext(SubSeq(snaps, 3, 4))}
    \cup {[SelectionContext(SubSeq(snaps, 1, 3)) EXCEPT !.stage = Some(st)] : st \in {"initial", "confirm_order"}}

\* the fields of a wizard context: none, some, all
WizardFields ==
    { <<None, None, None, None>>,
      <<Some("Tomato"), None, None, None>>,
      <<Some("Tomato"), Some(30), None, None>>,
      <<Some("Tomato"), Some(30), Some("2026-11-12"), None>>,
      <<Some("Tomato"), Some(30), Some("2026-11-12"), Some(2500)>>,
      <<Some("Tomato"), Some(30), Some("2026-11-04"), Some(2500)>> }

WizardContexts ==
    {[StageContext("adding_stock") EXCEPT !.step = step, !.product_name = f[1], !.quantity = f[2],
                                          !.expiry_date = f[3], !.price = f[4]] :
        step \in {None, Some("product_name"), Some("quantity"), Some("expiry_date"), Some("price"),
                  Some("confirm"), Some("unknown")},
        f \in WizardFields}

AnyContexts(table, now) ==
    BareContexts \cup ConfirmContexts(table, now) \cup SelectionContexts(table, now) \cup WizardContexts

\* the texts tried on a context: the quantity replies are for a context that
\* holds a selected item
TextsOn(context) ==
    IF HasSelectedItem(context) THEN SpokenTexts \cup QuantityTexts ELSE SpokenTexts

\* the callers of the single turns
AnyMiddlemen == {"m1"}

----------------------------------------------------------------------------
(* The state machine: one action per request to /api/voice-agent.          *)

\* the endpoint answering on the context of the caller's last turn, kept
\* by the server, in place of the one the request carries
VoiceAgentSticky(user_id, rawtext, context, view, observed) ==
    LET text == Strip(Lower(rawtext))
        role == RoleOf(user_id)
    IN  \E out \in {IF role = "manager"
                    THEN process_manager_voice_query(text, view, ctx[user_id], user_id, today)
                    ELSE process_middleman_voice_query(text, view, ctx[user_id], user_id, today)} :
        \E db \in {ExecuteAll([stock |-> stock, orders |-> orders], out.writes)} :
            /\ Len(db.orders) <= MaxOrders
            /\ Len(db.stock) <= Len(InitialStock) + MaxAdded
            /\ stock' = db.stock
            /\ orders' = db.orders
            /\ ctx' = [ctx EXCEPT ![user_id] = out.context]
            /\ last' = IF observed
                       THEN [user_id |-> user_id, role |-> role, text |-> rawtext, context |-> context,
                             view |-> view, stock |-> stock, orders |-> orders, today |-> today,
                             out |-> out]
                       ELSE last
            /\ UNCHANGED today

\* voice_agent: a request of caller user_id with text rawtext and context
\* context, view being the rows its SELECT returned.  The handler's reads
\* and its commit are one step: the SELECT is the only read and nothing
\* written depends on it.  last is the record of the exchange, kept when
\* observed.
VoiceAgent(user_id, rawtext, context, view, observed) ==
    LET text == Strip(Lower(rawtext))
        role == RoleOf(user_id)
    IN  \E out \in {IF role = "manager"
                    THEN process_manager_voice_query(text, view, context, user_id, today)
                    ELSE process_middleman_voice_query(text, view, context, user_id, today)} :
        \E db \in {ExecuteAll([stock |-> stock, orders |-> orders], out.writes)} :
            /\ Len(db.orders) <= MaxOrders
            /\ Len(db.stock) <= Len(InitialStock) + MaxAdded
            /\ stock' = db.stock
            /\ orders' = db.orders
            /\ ctx' = [ctx EXCEPT ![user_id] = out.context]
            /\ last' = IF observed
                       THEN [user_id |-> user_id, role |-> role, text |-> rawtext, context |-> context,
                             view |-> view, stock |-> stock, orders |-> orders, today |-> today,
                             out |-> out]
                       ELSE last
            /\ UNCHANGED today

\* a middleman's turn, the context being the one the last turn returned
MiddlemanTurn(user_id, rawtext, view) == VoiceAgent(user_id, rawtext, ctx[user_id], view, FALSE)

\* a manager's turn, the context being the one the last turn returned
ManagerTurn(user_id, rawtext, view) == VoiceAgent(user_id, rawtext, ctx[user_id], view, FALSE)

\* one observed turn of a middleman on the context the request carries
MiddlemanRequest(user_id, rawtext, view) == VoiceAgent(user_id, rawtext, ctx[user_id], view, TRUE)

\* one observed turn of a manager on the context the request carries
ManagerRequest(user_id, rawtext, view) == VoiceAgent(user_id, rawtext, ctx[user_id], view, TRUE)

\* midnight: date.today() moves on
DayPasses ==
    /\ today < Today0 + MaxDays
    /\ today' = today + 1
    /\ UNCHANGED <<stock, orders, ctx, last>>

Init ==
    /\ stock = InitialStock
    /\ orders = <<>>
    /\ today = Today0
    /\ ctx = [u \in Middlemen \cup Managers |-> StageContext("initial")]
    /\ last = NoTurn

\* conversations of the middlemen, within one day
NextBuyers ==
    \E view \in AvailableStock(stock) : \E u \in Middlemen, t \in BuyerTexts : MiddlemanTurn(u, t, view)

SpecBuyers == Init /\ [][NextBuyers]_vars

\* conversations of the manager
NextSeller ==
    \/ \E u \in Managers : \E view \in ManagerStock(stock, u) : \E t \in SellerTexts : ManagerTurn(u, t, view)
    \/ DayPasses

SpecSeller == Init /\ [][NextSeller]_vars

\* what the manager says in a conversation with the add-stock wizard
WizardTexts == {"add stock", "add 5 apple", "tomato", "30", "in 2 days", "-5", "yes", "cancel"}

\* conversations of the manager with the wizard, up to the MaxAdded-th item
NextWizard ==
    \/ /\ Len(stock) < Len(InitialStock) + MaxAdded
       /\ \E u \in Managers : \E view \in ManagerStock(stock, u) : \E t \in WizardTexts : ManagerTurn(u, t, view)
    \/ DayPasses

SpecWizard == Init /\ [][NextWizard]_vars

\* what is said in the turns before a replayed request
HistoryTexts == {"milk", " Confirm "}

\* what is said in a replayed request
ReplayTexts == {"milk", " Confirm ", "apple"}

\* the contexts a replayed request carries, whatever the caller was last sent
ReplayContexts ==
    {StageContext("initial"),
     ConfirmContext(Annotate(InitialStock[1], Today0)),
     [StageContext("adding_stock") EXCEPT !.step = Some("quantity"), !.product_name = Some("Tomato")]}

\* one observed request carrying a context of the caller's choice
ReplayRequest(user_id, rawtext, context, view) == VoiceAgent(user_id, rawtext, context, view, TRUE)

\* conversations of all callers, then one observed request that carries any
\* context
NextReplay ==
    /\ last = NoTurn
    /\ \/ \E view \in AvailableStock(stock) : \E u \in Middlemen, t \in HistoryTexts : MiddlemanTurn(u, t, view)
       \/ \E u \in Managers : \E view \in ManagerStock(stock, u) : ManagerTurn(u, "add stock", view)
       \/ \E view \in AvailableStock(stock) : \E u \in Middlemen, t \in ReplayTexts, c \in ReplayContexts :
            ReplayRequest(u, t, c, view)
       \/ \E u \in Managers : \E view \in ManagerStock(stock, u) : \E t \in {"30", "milk"}, c \in ReplayContexts :
            ReplayRequest(u, t, c, view)

SpecReplay == Init /\ [][NextReplay]_vars

\* what the manager says in a conversation that dates an item
DatedTexts ==
    {"add stock", "add 5 apple", "tomato", "30", "today", "tomorrow", "in 2 days", "november 5",
     "skip", "yes"}

\* conversations of the manager with the wizard, over midnight
NextDated ==
    \/ /\ Len(stock) < Len(InitialStock) + MaxAdded
       /\ \E u \in Managers : \E view \in ManagerStock(stock, u) : \E t \in DatedTexts : ManagerTurn(u, t, view)
    \/ DayPasses

SpecDated == Init /\ [][NextDated]_vars

RECURSIVE Expired(_, _, _)
\* UPDATE stock SET status = 'expired' WHERE expiry_date < date('now') AND
\* status = 'available', on the first n rows of the table
Expired(table, now, n) ==
    IF n = 0 THEN <<>>
    ELSE Append(Expired(table, now, n - 1),
                IF table[n].status = "available" /\ TextLess(table[n].expiry_date, Strftime(now))
                THEN [table[n] EXCEPT !.status = "expired"]
                ELSE table[n])

\* GET /api/stock: the request that marks the expired rows before it reads
get_stock ==
    /\ stock' = Expired(stock, today, Len(stock))
    /\ UNCHANGED <<orders, today, ctx, last>>

\* what a middleman says in a conversation that goes on after midnight
OvernightTexts == {"bread", "urgent", "1", " Confirm "}

\* the buyers' conversations, midnight, and the stock list being read
NextOvernight ==
    \/ \E view \in AvailableStock(stock) : \E u \in Middlemen, t \in OvernightTexts : MiddlemanTurn(u, t, view)
    \/ DayPasses
    \/ get_stock

SpecOvernight == Init /\ [][NextOvernight]_vars

RECURSIVE Shelved(_, _, _)
\* the first n rows of a table with the rows of S available and the others
\* reserved
Shelved(table, S, n) ==
    IF n = 0 THEN <<>>
    ELSE Append(Shelved(table, S, n - 1),
                [table[n] EXCEPT !.status = IF n \in S THEN "available" ELSE "reserved"])

\* the stock tables a price or urgency question may find
ShelfTables == {Shelved(InitialStock, S, Len(InitialStock)) : S \in SUBSET (1..Len(InitialStock))}

\* the days on which the question is asked
ShelfDays == {Today0, Today0 + 3, Today0 + 8}

\* the questions asked
ShelfTexts == {"cheapest", "urgent"}

\* the questions a seller asks, and the contexts sent with them
ShelfSellerTexts == {"urgent", "check", "apple", "butter"}

ShelfContexts ==
    {StageContext("initial"), ConfirmContext(Annotate(InitialStock[1], Today0)),
     SelectionContext(<<Annotate(InitialStock[1], Today0), Annotate(InitialStock[2], Today0)>>)}

InitShelf ==
    /\ stock \in ShelfTables
    /\ orders = <<>>
    /\ today \in ShelfDays
    /\ ctx = [u \in Middlemen \cup Managers |-> StageContext("initial")]
    /\ last = NoTurn

\* one observed question of a buyer or of a seller on any shelf
NextShelf ==
    /\ last = NoTurn
    /\ \/ \E view \in AvailableStock(stock) : \E u \in AnyMiddlemen, t \in ShelfTexts : MiddlemanRequest(u, t, view)
       \/ \E u \in Managers : \E view \in ManagerStock(stock, u) :
              \E t \in ShelfSellerTexts, c \in ShelfContexts : ReplayRequest(u, t, c, view)

SpecShelf == InitShelf /\ [][NextShelf]_vars

\* single turns: every caller, every text, on every context a caller may send
InitAny ==
    /\ stock = InitialStock
    /\ orders = <<>>
    /\ today = Today0
    /\ \E c \in AnyContexts(InitialStock, Today0) : ctx = [u \in Middlemen \cup Managers |-> c]
    /\ last = NoTurn

NextAny ==
    /\ last = NoTurn
    /\ \/ \E view \in AvailableStock(stock) : \E u \in AnyMiddlemen : \E t \in TextsOn(ctx[u]) :
            MiddlemanRequest(u, t, view)
       \/ \E u \in Managers : \E view \in ManagerStock(stock, u) : \E t \in TextsOn(ctx[u]) :
            ManagerRequest(u, t, view)

SpecAny == InitAny /\ [][NextAny]_vars

Next ==
    \/ \E view \in AvailableStock(stock) : \E u \in Middlemen, t \in BuyerTexts : MiddlemanTurn(u, t, view)
    \/ \E u \in Managers : \E view \in ManagerStock(stock, u) : \E t \in SellerTexts : ManagerTurn(u, t, view)
    \/ DayPasses

Spec == Init /\ [][Next]_vars

----------------------------------------------------------------------------
(* What the observed turn was, for the properties of single turns.         *)

\* the text the handlers received
HeardText == Strip(Lower(last.text))

IsBuyerTurn == last.role = "middleman"

IsSellerTurn == last.role = "manager"

\* the turn's context carries a results list that is not empty
CarriesResults == last.context.results # None /\ last.context.results # Some(<<>>)

\* the turn's context carries a selected item
CarriesItem == last.context.selected_item # None

IntentRules == {"greeting", "search", "price", "urgency", "cancel", "help", "default"}

\* the turn committed nothing
StoreUntouched == stock = last.stock /\ orders = last.orders

\* the turn committed an order
OrderCommitted == last.out.action = "order_confirmed"

\* the snapshot the order was made from, and the quantity committed
Snapshot == Val(last.context.selected_item)

CommittedQty == Val(last.out.order).quantity

\* the quantity the specification commits for a request of r units on a
\* snapshot of a units
SpecifiedQty(r, a) ==
    LET q == IF 10 > (r \div 10) * 10 THEN 10 ELSE (r \div 10) * 10 IN
    IF q <= a THEN q
    ELSE IF (a \div 10) * 10 = 0 THEN a ELSE (a \div 10) * 10

\* the index in the stock table of the row with a stock_id
RowOf(table, stock_id) == CHOOSE k \in 1..Len(table) : table[k].stock_id = stock_id

----------------------------------------------------------------------------
(* C1 *)

\* C1, as stated: every turn whose stage is awaiting_selection or
\* confirm_order (buyer) or adding_stock (seller) is answered by that
\* stage's handler, whatever else the context holds.
C1_AnyContextRouted ==
    /\ (IsBuyerTurn /\ last.context.stage = Some("awaiting_selection")) => last.out.rule = "selection"
    /\ (IsBuyerTurn /\ last.context.stage = Some("confirm_order")) => last.out.rule = "confirmation"
    /\ (IsSellerTurn /\ last.context.stage = Some("adding_stock")) => last.out.rule = "wizard"

\* C1, amended: a buyer's turn in stage awaiting_selection is answered by
\* the selection handler exactly when the context carries a non-empty
\* results list, one in stage confirm_order by the confirmation handler
\* exactly when the context carries a selected item, and otherwise by an
\* intent rule; a seller's turn in stage adding_stock is always answered by
\* the wizard.
C1_StageRouting ==
    /\ (IsBuyerTurn /\ last.context.stage = Some("awaiting_selection")) =>
            IF CarriesResults THEN last.out.rule = "selection" ELSE last.out.rule \in IntentRules
    /\ (IsBuyerTurn /\ last.context.stage = Some("confirm_order")) =>
            IF CarriesItem THEN last.out.rule = "confirmation" ELSE last.out.rule \in IntentRules
    /\ (IsSellerTurn /\ last.context.stage = Some("adding_stock")) => last.out.rule = "wizard"

\* a greeting in stage awaiting_selection, answered by the selection handler
C1_Witness ==
    /\ IsBuyerTurn
    /\ last.context.stage = Some("awaiting_selection")
    /\ CarriesResults
    /\ last.text = "Hello"
    /\ last.out.rule = "selection"

----------------------------------------------------------------------------
(* C2 *)

\* C2: an affirmed confirm_order turn commits SpecifiedQty(r, a) for the
\* requested quantity r and the snapshot quantity a, r being a when the
\* reply names no quantity.
C2_CommittedQuantity ==
    (IsBuyerTurn /\ last.context.stage = Some("confirm_order") /\ CarriesItem) =>
        /\ \A n \in 0..MaxQty :
                last.text = "confirm " \o ToString(n) =>
                    /\ OrderCommitted
                    /\ CommittedQty = SpecifiedQty(n, Snapshot.quantity)
        /\ last.text = " Confirm " =>
                /\ OrderCommitted
                /\ CommittedQty = SpecifiedQty(Snapshot.quantity, Snapshot.quantity)

----------------------------------------------------------------------------
(* C3 *)

\* C3: a turn that confirms an order appends one row (stock_id of the
\* selected item, the caller, the committed quantity, confirmed) to the
\* orders and changes one stock row, that of the selected item: its quantity
\* becomes the item's quantity less the committed quantity, or 0 with status
\* ordered when that is not positive; the status stays otherwise.
C3_ConfirmedOrder ==
    OrderCommitted =>
        LET left == Snapshot.quantity - CommittedQty IN
        /\ orders = Append(last.orders,
                           [stock_id |-> Snapshot.stock_id, middleman_id |-> last.user_id,
                            quantity |-> CommittedQty, status |-> "confirmed"])
        /\ Len(stock) = Len(last.stock)
        /\ \A k \in 1..Len(stock) :
                stock[k] = IF last.stock[k].stock_id = Snapshot.stock_id
                           THEN [last.stock[k] EXCEPT !.quantity = IF left <= 0 THEN 0 ELSE left,
                                                      !.status = IF left <= 0 THEN "ordered" ELSE @]
                           ELSE last.stock[k]

\* buyer m1 confirms 10 of an item of quantity 10: quantity 0, ordered, one
\* confirmed order row
C3_Witness ==
    /\ OrderCommitted
    /\ last.user_id = "m1"
    /\ last.text = "confirm 10"
    /\ Snapshot.quantity = 10
    /\ orders = <<[stock_id |-> Snapshot.stock_id, middleman_id |-> "m1", quantity |-> 10,
                   status |-> "confirmed"]>>
    /\ stock[RowOf(stock, Snapshot.stock_id)].quantity = 0
    /\ stock[RowOf(stock, Snapshot.stock_id)].status = "ordered"

----------------------------------------------------------------------------
(* C4 *)

\* C4: every row of the orders has status confirmed and a quantity above 0.
C4_OrderRows ==
    \A k \in 1..Len(orders) : orders[k].status = "confirmed" /\ orders[k].quantity > 0

----------------------------------------------------------------------------
(* C5 *)

\* two buyers each hold an order of 10 for the milk, stocked at 10
BothOrderedMilk ==
    /\ Len(orders) = 2
    /\ \A k \in {1, 2} : orders[k].stock_id = 1 /\ orders[k].quantity = 10 /\ orders[k].status = "confirmed"
    /\ orders[1].middleman_id # orders[2].middleman_id

\* C5, as stated: when both buyers' orders of 10 are committed against the
\* item stocked at 10, its stored quantity is negative.
C5_DrivenNegative == BothOrderedMilk => stock[RowOf(stock, 1)].quantity < 0

\* C5, amended: both buyers' orders of 10 are committed against the item
\* stocked at 10, 20 units are sold of 10, and the stored quantity is 0 with
\* status ordered, not negative.
C5_Oversold ==
    BothOrderedMilk =>
        /\ stock[RowOf(stock, 1)].quantity = 0
        /\ stock[RowOf(stock, 1)].status = "ordered"
        /\ orders[1].quantity + orders[2].quantity > InitialStock[RowOf(InitialStock, 1)].quantity

C5_Witness == BothOrderedMilk /\ stock[RowOf(stock, 1)].quantity = 0

----------------------------------------------------------------------------
(* C6 *)

\* C6: a turn that confirms an order takes the committed quantity and the
\* quantity it stores from the snapshot in the context alone: the committed
\* quantity is SpecifiedQty of the request and the snapshot quantity, and
\* the stored quantity is the snapshot quantity less the committed one (or 0
\* with status ordered), whatever quantity and status the row had.
C6_SnapshotOnly ==
    OrderCommitted =>
        LET left == Snapshot.quantity - CommittedQty
            row == stock[RowOf(stock, Snapshot.stock_id)]
        IN  /\ row.quantity = IF left <= 0 THEN 0 ELSE left
            /\ left <= 0 => row.status = "ordered"
            /\ \A n \in 1..MaxQty :
                    last.text = "confirm " \o ToString(n) =>
                        CommittedQty = SpecifiedQty(n, Snapshot.quantity)
            /\ last.text = " Confirm " =>
                    CommittedQty = SpecifiedQty(Snapshot.quantity, Snapshot.quantity)

\* an order confirmed on a snapshot of 45 of a row that held 30 and had
\* expired: 40 are committed and the row is left with 5
C6_Witness ==
    /\ OrderCommitted
    /\ LET live == last.stock[RowOf(last.stock, Snapshot.stock_id)] IN
       /\ live.quantity = 30
       /\ live.status = "expired"
       /\ Snapshot.quantity = 45
       /\ CommittedQty = 40
       /\ stock[RowOf(stock, Snapshot.stock_id)].quantity = 5

----------------------------------------------------------------------------
(* C7 *)

\* the rows a buyer's search keeps
BuyerMatches == ProductsFound(HeardText, last.view, last.today)

\* the rows a seller's search keeps
SellerMatches ==
    IF Mentioned(HeardText) = <<>> THEN last.view
    ELSE SelectSeq(last.view, LAMBDA item : NameHasKeyword(item, Mentioned(HeardText)))

IsBuyerSearch == IsBuyerTurn /\ last.out.rule = "search"

IsSellerSearch == IsSellerTurn /\ last.out.rule = "search"

\* C7, as stated: a search that keeps no item returns the context
\* {stage: search_failed} and no data, and leaves the store as it was.
C7_AlwaysSearchFailed ==
    ((IsBuyerSearch /\ BuyerMatches = <<>>) \/ (IsSellerSearch /\ SellerMatches = <<>>)) =>
        /\ last.out.context = [EmptyContext EXCEPT !.stage = Some("search_failed")]
        /\ last.out.data = None
        /\ StoreUntouched

\* C7, amended: a buyer's search that keeps no item returns the context
\* {stage: search_failed}, a seller's search that keeps no item returns the
\* context {stage: initial}; both return no data and leave the store as it
\* was.
C7_NoMatch ==
    /\ (IsBuyerSearch /\ BuyerMatches = <<>>) =>
            /\ last.out.context = [EmptyContext EXCEPT !.stage = Some("search_failed")]
            /\ last.out.data = None
            /\ StoreUntouched
    /\ (IsSellerSearch /\ SellerMatches = <<>>) =>
            /\ last.out.context = [EmptyContext EXCEPT !.stage = Some("initial")]
            /\ last.out.data = None
            /\ StoreUntouched

\* a buyer asks for fish, of which none is available
C7_Witness ==
    /\ IsBuyerSearch
    /\ last.text = "fish"
    /\ BuyerMatches = <<>>
    /\ last.out.context.stage = Some("search_failed")

----------------------------------------------------------------------------
(* C8 *)

\* C8: a buyer's search that keeps exactly one item returns the context
\* {stage: confirm_order, selected_item: that item}.
C8_SingleMatch ==
    (IsBuyerSearch /\ Len(BuyerMatches) = 1) =>
        /\ last.out.context = [EmptyContext EXCEPT !.stage = Some("confirm_order"),
                                                   !.selected_item = Some(BuyerMatches[1])]
        /\ last.out.context.stage # Some("awaiting_selection")

\* a buyer asks for milk, of which one item is available
C8_Witness ==
    /\ IsBuyerSearch
    /\ last.text = "milk"
    /\ Len(BuyerMatches) = 1
    /\ last.out.context.stage = Some("confirm_order")

----------------------------------------------------------------------------
(* C9 *)

\* C9: a buyer's search that keeps more than one item returns stage
\* awaiting_selection with a results list, which is also the data, of at
\* most 5 of the kept items, ascending in days_left, none of the items left
\* out expiring sooner than one in the list.
C9_MultipleMatches ==
    (IsBuyerSearch /\ Len(BuyerMatches) > 1) =>
        /\ last.out.context.stage = Some("awaiting_selection")
        /\ last.out.context.results # None
        /\ last.out.data = last.out.context.results
        /\ LET results == Val(last.out.context.results)
               found == BuyerMatches
           IN  /\ Len(results) = IF Len(found) < 5 THEN Len(found) ELSE 5
               /\ \A i \in 1..Len(results) : \E j \in 1..Len(found) : results[i] = found[j]
               /\ \A i, j \in 1..Len(results) : i < j => results[i].stock_id # results[j].stock_id
               /\ \A i, j \in 1..Len(results) :
                        i < j => Val(results[i].days_left) <= Val(results[j].days_left)
               /\ \A j \in 1..Len(found) :
                        (\A i \in 1..Len(results) : results[i] # found[j]) =>
                            \A i \in 1..Len(results) :
                                Val(results[i].days_left) <= Val(found[j].days_left)

\* a buyer asks to be shown the stock, of which seven items are available
C9_Witness ==
    /\ IsBuyerSearch
    /\ Len(BuyerMatches) = 7
    /\ last.out.context.stage = Some("awaiting_selection")
    /\ Len(Val(last.out.context.results)) = 5

----------------------------------------------------------------------------
(* C10 *)

\* the turn is one of the selection stage
IsSelection == IsBuyerTurn /\ last.context.stage = Some("awaiting_selection") /\ CarriesResults

ListedResults == Val(last.context.results)

\* the entries of the number-word table whose word is a word of the reply
NumbersSaid == {k \in 1..Len(number_words) : \E w \in 1..Len(Split(HeardText)) : Split(HeardText)[w] = number_words[k][1]}

\* the listed items whose name, or a word of whose name, is in the reply
NamesSaid ==
    {i \in 1..Len(ListedResults) :
        \/ Contains(HeardText, Lower(ListedResults[i].product_name))
        \/ \E w \in 1..Len(Split(Lower(ListedResults[i].product_name))) :
                Contains(HeardText, Split(Lower(ListedResults[i].product_name))[w])}

LeastOf(S) == CHOOSE k \in S : \A j \in S : k <= j

\* the position in the list the reply resolves to, or 0: the first entry of
\* the number-word table said, else the first item named
ResolvedPosition ==
    IF NumbersSaid # {} THEN number_words[LeastOf(NumbersSaid)][2] + 1
    ELSE IF NamesSaid # {} THEN LeastOf(NamesSaid)
    ELSE 0

\* C10: in awaiting_selection the reply resolves to a position by the
\* number-word table first and by product name only when it has no number
\* word; a position within the list returns {stage: confirm_order,
\* selected_item: the item at that position} with the item's days_left as
\* listed; any other reply returns the context as it came and prompts again;
\* the store stays as it was either way.
C10_Selection ==
    IsSelection =>
        /\ StoreUntouched
        /\ IF ResolvedPosition \in 1..Len(ListedResults)
           THEN /\ last.out.action = "product_selected"
                /\ last.out.context = [EmptyContext EXCEPT !.stage = Some("confirm_order"),
                                           !.selected_item = Some(ListedResults[ResolvedPosition])]
           ELSE /\ last.out.action = "selection_prompt"
                /\ last.out.context = last.context

\* the reply "apple 2" selects the second item, which is not the apple that
\* is also listed
C10_Witness ==
    /\ IsSelection
    /\ last.text = "apple 2"
    /\ \E i \in 1..Len(ListedResults) : ListedResults[i].product_name = "Apple"
    /\ Len(ListedResults) >= 2
    /\ ListedResults[2].product_name # "Apple"
    /\ last.out.context.selected_item = Some(ListedResults[2])

----------------------------------------------------------------------------
(* C11 *)

\* the turn is one of the confirmation stage
IsConfirmation == IsBuyerTurn /\ last.context.stage = Some("confirm_order") /\ CarriesItem

\* the reply holds an affirmation word, a cancel word of the confirmation
SaysAffirmation == \E w \in {"yes", "confirm", "order", "proceed", "ok", "okay"} : Contains(HeardText, w)

SaysOrderCancel == \E w \in {"no", "cancel", "nevermind"} : Contains(HeardText, w)

\* C11: in stage confirm_order every reply that holds a cancel word (no,
\* cancel, nevermind) returns the context {stage: initial} and commits no
\* order, and a reply with neither an affirmation nor a cancel word prompts
\* again and returns the context as it came.
C11_CancelResets ==
    IsConfirmation =>
        /\ SaysOrderCancel =>
                /\ last.out.context = [EmptyContext EXCEPT !.stage = Some("initial")]
                /\ ~OrderCommitted
                /\ StoreUntouched
        /\ (~SaysOrderCancel /\ ~SaysAffirmation) =>
                /\ last.out.action = "awaiting_confirmation"
                /\ last.out.context = last.context
                /\ StoreUntouched

\* what the handler does with a cancel word: it resets when the reply holds
\* no affirmation word, and commits the order when it holds one
C11_CancelUnlessAffirmed ==
    IsConfirmation =>
        /\ (SaysOrderCancel /\ ~SaysAffirmation) =>
                /\ last.out.action = "cancelled"
                /\ last.out.context = [EmptyContext EXCEPT !.stage = Some("initial")]
                /\ StoreUntouched
        /\ (SaysOrderCancel /\ SaysAffirmation) => OrderCommitted
        /\ (~SaysOrderCancel /\ ~SaysAffirmation) =>
                /\ last.out.action = "awaiting_confirmation"
                /\ last.out.context = last.context
                /\ StoreUntouched

\* the reply "cancel order" on the selected milk commits an order
C11_CancelOrderCommits ==
    /\ IsConfirmation
    /\ last.text = "cancel order"
    /\ Snapshot.product_name = "Milk"
    /\ OrderCommitted
    /\ Len(orders) = Len(last.orders) + 1

----------------------------------------------------------------------------
(* C12 *)

\* the reply is a cancel word
IsCancelWord == HeardText \in {"no", "cancel", "nevermind"}

\* the context is the reset one
ResetReturned == last.out.context = [EmptyContext EXCEPT !.stage = Some("initial")]

\* C12: in each of the stages search_failed, awaiting_selection and
\* confirm_order a buyer's reply that is a cancel word is answered by
\* cancelled with the context {stage: initial}, and nothing is selected or
\* ordered.
C12_CancelAccepted ==
    (IsBuyerTurn /\ IsCancelWord
        /\ last.context.stage \in {Some("search_failed"), Some("awaiting_selection"), Some("confirm_order")}) =>
        /\ last.out.action = "cancelled"
        /\ ResetReturned
        /\ StoreUntouched

\* where the cancel word is accepted: everywhere but in a selection, which
\* prompts again with the context as it came
C12_CancelOutsideSelection ==
    (IsBuyerTurn /\ IsCancelWord) =>
        /\ StoreUntouched
        /\ IF IsSelection
           THEN last.out.action = "selection_prompt" /\ last.out.context = last.context
           ELSE last.out.action = "cancelled" /\ ResetReturned

\* the reply "cancel" to a list of results leaves the buyer in the selection
C12_CancelIgnored ==
    /\ IsSelection
    /\ last.text = "cancel"
    /\ Len(ListedResults) >= 2
    /\ last.out.action = "selection_prompt"
    /\ last.out.context.stage = Some("awaiting_selection")

----------------------------------------------------------------------------
(* C13 *)

\* the turn ended a flow: an order or a stock item committed, a
\* cancellation, or a fall through to the default or the error response
EndsFlow == last.out.action \in {"order_confirmed", "stock_added", "cancelled", "default", "error"}

\* the turn added a stock item
StockAdded == last.out.action = "stock_added"

\* C13, as stated: every turn that confirms an order, adds a stock item,
\* cancels or falls through to the default response returns the context
\* {stage: initial}.
C13_FlowEndResets == EndsFlow => ResetReturned

\* C13, amended: a turn that adds a stock item, cancels or falls through to
\* the default response returns the context {stage: initial}; a turn that
\* confirms an order returns the context {stage: completed}.
C13_FlowEnd ==
    /\ (EndsFlow /\ ~OrderCommitted) => ResetReturned
    /\ OrderCommitted => last.out.context = [EmptyContext EXCEPT !.stage = Some("completed")]

\* the wizard's confirm step adds the drafted tomatoes and resets the context
C13_Witness ==
    /\ IsSellerTurn
    /\ last.context.step = Some("confirm")
    /\ last.text = "yes"
    /\ StockAdded
    /\ Len(stock) = Len(last.stock) + 1
    /\ stock[Len(stock)].product_name = "Tomato"
    /\ ResetReturned

----------------------------------------------------------------------------
(* C14 *)

\* the documented graph of the buyer's stages; the stages that no handler
\* claims (search_failed, completed, none) are treated as initial
StageGraph(from, to) ==
    IF from = Some("awaiting_selection") THEN to \in {Some("awaiting_selection"), Some("confirm_order")}
    ELSE IF from = Some("confirm_order") THEN to \in {Some("confirm_order"), Some("completed"), Some("initial")}
    ELSE /\ from \in {Some("initial"), Some("search_failed"), Some("completed")}
         /\ to \in {Some("initial"), Some("search_failed"), Some("confirm_order"), Some("awaiting_selection")}

\* the replies tried on every context a conversation reaches
GraphTexts == BuyerTexts \cup {"cheapest", "urgent", "thanks"}

\* the stage returned to caller u for the reply t on the context u holds
NextStage(u, t, view) ==
    process_middleman_voice_query(Strip(Lower(t)), view, ctx[u], u, today).context.stage

\* C14: in a conversation in which every returned context is sent back as
\* it came, every reply moves the buyer's stage along an edge of the
\* documented graph.
C14_StageGraph ==
    \A u \in Middlemen : \A t \in GraphTexts : \A view \in AvailableStock(stock) :
        StageGraph(ctx[u].stage, NextStage(u, t, view))

\* one buyer's conversation has ended in completed, the other's in
\* search_failed
C14_Witness ==
    /\ ctx["m1"].stage = Some("completed")
    /\ ctx["m2"].stage = Some("search_failed")
    /\ Len(orders) > 0

----------------------------------------------------------------------------
(* C15 *)

\* the wizard's steps in their order
WizardSteps == <<"product_name", "quantity", "expiry_date", "price", "confirm">>

\* the position of a step in the order, 0 for anything else
StepIndex(step) ==
    IF \E i \in 1..Len(WizardSteps) : step = Some(WizardSteps[i])
    THEN CHOOSE i \in 1..Len(WizardSteps) : step = Some(WizardSteps[i])
    ELSE 0

\* the reply t holds a cancel word of the wizard
SaysWizardCancel(t) == \E w \in {"cancel", "stop", "nevermind"} : Contains(Strip(Lower(t)), w)

\* the context returned to manager u for the reply t on the context u holds
NextContext(u, t, view) ==
    process_manager_voice_query(Strip(Lower(t)), view, ctx[u], u, today).context

\* C15: in a conversation in which every returned context is sent back as
\* it came, a reply to the wizard keeps the step or moves it to the next one
\* of product_name, quantity, expiry_date, price, confirm, or leaves the
\* wizard for the context {stage: initial}, and that only on a cancel word
\* or at the confirm step.
C15_Linear ==
    \A u \in Managers :
        ctx[u].stage = Some("adding_stock") =>
            /\ StepIndex(ctx[u].step) > 0
            /\ \A t \in WizardTexts : \A view \in ManagerStock(stock, u) :
                    LET to == NextContext(u, t, view) IN
                    IF to.stage = Some("adding_stock")
                    THEN StepIndex(to.step) \in {StepIndex(ctx[u].step), StepIndex(ctx[u].step) + 1}
                    ELSE /\ to = [EmptyContext EXCEPT !.stage = Some("initial")]
                         /\ SaysWizardCancel(t) \/ ctx[u].step = Some("confirm")

\* the conversation has gone through every step and added the tomatoes
C15_Witness ==
    /\ Len(stock) = Len(InitialStock) + 1
    /\ stock[Len(stock)].product_name = "Tomato"
    /\ stock[Len(stock)].quantity = 30
    /\ ctx["s1"] = [EmptyContext EXCEPT !.stage = Some("initial")]

----------------------------------------------------------------------------
(* C16 *)

\* the turn is one of the wizard, at one of its five steps
IsWizardTurn ==
    IsSellerTurn /\ last.context.stage = Some("adding_stock") /\ StepIndex(last.context.step) > 0

\* C16: at each of the wizard's steps a reply that holds a cancel word
\* (cancel, stop, nevermind) returns the context {stage: initial}, which
\* carries none of the drafted fields, and adds no stock item.
C16_WizardCancel ==
    (IsWizardTurn /\ SaysWizardCancel(last.text)) =>
        /\ last.out.action = "cancelled"
        /\ last.out.context = [EmptyContext EXCEPT !.stage = Some("initial")]
        /\ last.out.writes = <<>>
        /\ StoreUntouched

\* "nevermind" at the confirm step, with every field drafted: the draft is
\* dropped
C16_Witness ==
    /\ IsWizardTurn
    /\ last.context.step = Some("confirm")
    /\ last.context.product_name = Some("Tomato")
    /\ last.context.quantity = Some(30)
    /\ last.context.price # None
    /\ last.text = "nevermind"
    /\ last.out.context.product_name = None
    /\ last.out.context.stage = Some("initial")
    /\ Len(stock) = Len(last.stock)

----------------------------------------------------------------------------
(* C17 *)

\* the turn is one of the wizard's quantity step, and no cancellation
IsQuantityStep ==
    IsWizardTurn /\ last.context.step = Some("quantity") /\ ~SaysWizardCancel(last.text)

\* the digit words of the reply, and the number the first of them reads as
DigitWordsSaid == {w \in 1..Len(Split(HeardText)) : IsDigit(Split(HeardText)[w])}

DigitsSaid == IF DigitWordsSaid = {} THEN 0 ELSE ParseInt(Split(HeardText)[LeastOf(DigitWordsSaid)])

\* the entries of the quantity-word table whose word occurs in the reply
QuantityWordsSaid == {k \in 1..Len(quantity_words) : Contains(HeardText, quantity_words[k][1])}

\* the quantity the reply gives: its first digit word, or when that is
\* missing or 0 the first word of the table it holds; 0 when it gives none
QuantitySaid ==
    IF DigitsSaid > 0 THEN DigitsSaid
    ELSE IF QuantityWordsSaid # {} THEN quantity_words[LeastOf(QuantityWordsSaid)][2]
    ELSE 0

C17_WordAccepted ==
    /\ IsQuantityStep
    /\ last.text = "thirty"
    /\ last.out.context.quantity = Some(30)
    /\ last.out.context.step = Some("expiry_date")

----------------------------------------------------------------------------
(* C18 *)

\* the turn is one of the wizard's expiry_date step, and no cancellation
IsExpiryStep ==
    IsWizardTurn /\ last.context.step = Some("expiry_date") /\ ~SaysWizardCancel(last.text)

\* the context the step returns once it has read the date d
ExpiryRecorded(d) ==
    last.out.context = [last.context EXCEPT !.expiry_date = Some(Strftime(d)), !.step = Some("price")]

\* the step prompts again and returns the context as it came
ExpiryRefused == last.out.action = "retry_expiry" /\ last.out.context = last.context

MonthNames ==
    <<"january", "february", "march", "april", "may", "june", "july", "august", "september",
      "october", "november", "december">>

\* the largest N of a reply "in N days" looked at
MaxDaysAhead == 10

\* the year a month and day said on the day now fall in: the year of now,
\* the next one when they lie before now
YearSaid(m, d, now) ==
    IF m < MonthOf(now) \/ (m = MonthOf(now) /\ d < DayOf(now)) THEN YearOf(now) + 1 ELSE YearOf(now)

\* the reply holds none of the forms of a date
NoDateSaid ==
    /\ \A w \in {"today", "tomorrow", "next week", "in a week"} : ~Contains(HeardText, w)
    /\ IF Contains(HeardText, "in") /\ Contains(HeardText, "day")
       THEN DigitWordsSaid = {}
       ELSE \/ \A w \in 1..Len(Split(HeardText)) : Lookup(months, Split(HeardText)[w]) = 0
            \/ \A w \in DigitWordsSaid : ParseInt(Split(HeardText)[w]) \notin 1..31

\* C18: at the expiry_date step, on the day T, the reply "in N days" records
\* the date T + N; a month name and a day of the month record that day of
\* the year of T, or of the next year when the day lies before T, and are
\* turned down when that year has no such day; a reply that holds no date
\* is answered by a new prompt with the context as it came. No reply adds a
\* stock item.
C18_ExpiryStep ==
    IsExpiryStep =>
        /\ StoreUntouched
        /\ \A n \in 0..MaxDaysAhead :
                last.text = "in " \o ToString(n) \o " days" => ExpiryRecorded(last.today + n)
        /\ \A m \in 1..12 : \A d \in 1..31 :
                last.text = MonthNames[m] \o " " \o ToString(d) =>
                    IF ValidDate(YearSaid(m, d, last.today), m, d)
                    THEN ExpiryRecorded(Ordinal(YearSaid(m, d, last.today), m, d))
                    ELSE ExpiryRefused
        /\ NoDateSaid => ExpiryRefused

\* on 2026-11-05 the reply "november 4" records the 4th of November 2027
C18_Witness ==
    /\ IsExpiryStep
    /\ last.today = Ordinal(2026, 11, 5)
    /\ last.text = "november 4"
    /\ last.out.context.expiry_date = Some("2027-11-04")
    /\ last.out.context.step = Some("price")

\* the reply "in 10 days" records the 15th of November 2026
C18_InTenDays ==
    /\ IsExpiryStep
    /\ last.text = "in 10 days"
    /\ last.out.context.expiry_date = Some("2026-11-15")

\* the replies "tomato" and "february 30" are turned down
C18_Unparseable ==
    /\ IsExpiryStep
    /\ last.text = "february 30"
    /\ ExpiryRefused

----------------------------------------------------------------------------
(* C19 *)

\* the turn is one of the wizard's price step, and no cancellation
IsPriceStep ==
    IsWizardTurn /\ last.context.step = Some("price") /\ ~SaysWizardCancel(last.text)

\* the reply without the currency signs and words, in words
PriceWords == Split(Remove(Remove(Remove(Remove(HeardText, "₹"), "$"), "rupees"), "rupee"))

\* the words of the reply that read as a number
NumbersInPrice == {w \in 1..Len(PriceWords) : ParseFloat(PriceWords[w]) # None}

\* the reply declines to give a price
DeclinesPrice == Contains(HeardText, "skip") \/ Contains(HeardText, "no price") \/ HeardText = "no"

\* the price the reply gives, in hundredths: none when it declines or holds
\* no number
PriceSaid ==
    IF DeclinesPrice \/ NumbersInPrice = {} THEN None
    ELSE ParseFloat(PriceWords[LeastOf(NumbersInPrice)])

\* C19: at the price step every reply without a cancel word moves to step
\* confirm and never prompts for the price again; the price recorded is null
\* when the reply is no or holds skip or no price, null when no word of it
\* reads as a number, and the first word that reads as a number otherwise.
\* No reply adds a stock item.
C19_PriceStep ==
    IsPriceStep =>
        /\ StoreUntouched
        /\ last.out.action = "add_stock_confirm"
        /\ last.out.context = [last.context EXCEPT !.price = PriceSaid, !.step = Some("confirm")]
        /\ last.text \in {"skip", "no", "no price", "tomato", "yes", ""} => last.out.context.price = None
        /\ last.text = "30" => last.out.context.price = Some(3000)
        /\ last.text = "$2.5 each" => last.out.context.price = Some(250)
        /\ last.text = "no 20 ok" => last.out.context.price = Some(2000)

\* the reply "tomato" to the question for the price moves on to the
\* confirmation with no price
C19_Witness ==
    /\ IsPriceStep
    /\ last.text = "tomato"
    /\ last.context.price = None
    /\ last.out.action = "add_stock_confirm"
    /\ last.out.context.price = None
    /\ last.out.context.step = Some("confirm")

\* the reply "$2.5 each" records 2.5
C19_NumberRecorded ==
    /\ IsPriceStep
    /\ last.text = "$2.5 each"
    /\ last.out.context.price = Some(250)
    /\ last.out.context.step = Some("confirm")

----------------------------------------------------------------------------
(* C20 *)

\* the rows the wizard has added to the stock table
InsertedRows == {k \in 1..Len(stock) : k > Len(InitialStock)}

\* C20: every stock item added through the wizard, the quick add included,
\* has a quantity of 0 or more, a price that is null or 0 or more, and the
\* status available or expired.
C20_InsertedItems ==
    \A k \in InsertedRows :
        /\ stock[k].quantity >= 0
        /\ stock[k].price = None \/ Val(stock[k].price) >= 0
        /\ stock[k].status \in {"available", "expired"}

\* what holds of the items added: the quantity is 1 or more and the status
\* is available or expired
C20_QuantityAndStatus ==
    \A k \in InsertedRows :
        /\ stock[k].quantity >= 1
        /\ stock[k].status \in {"available", "expired"}

\* tomatoes added at the price of -5
C20_NegativePrice ==
    /\ InsertedRows # {}
    /\ \E k \in InsertedRows :
            /\ stock[k].product_name = "Tomato"
            /\ stock[k].quantity = 30
            /\ stock[k].price = Some(0 - 500)

----------------------------------------------------------------------------
(* C21 *)

\* the turn is one of the wizard's confirm step, and no cancellation
IsConfirmStep ==
    IsWizardTurn /\ last.context.step = Some("confirm") /\ ~SaysWizardCancel(last.text)

\* the reply holds an affirmation word of the wizard
SaysStockAffirmation ==
    \E w \in {"yes", "confirm", "add", "ok", "okay", "correct"} : Contains(HeardText, w)

\* the draft holds a name, a quantity and an expiry date
DraftComplete ==
    /\ last.context.product_name # None
    /\ last.context.quantity # None
    /\ last.context.expiry_date # None

\* the row the draft is committed as on the day of the turn
DraftRow ==
    [stock_id |-> Len(last.stock) + 1, manager_id |-> last.user_id,
     product_name |-> Val(last.context.product_name), quantity |-> Val(last.context.quantity),
     expiry_date |-> Val(last.context.expiry_date), price |-> last.context.price,
     status |-> IF Val(Strptime(Val(last.context.expiry_date))) < last.today THEN "expired" ELSE "available",
     days_left |-> None]

\* C21: at the confirm step an affirmation adds exactly one stock item, the
\* seller's, with the drafted name, quantity, expiry date and price, expired
\* when the expiry date is before the day of the turn and available
\* otherwise, and returns the context {stage: initial}; any other reply
\* without a cancel word adds nothing and prompts again with the context as
\* it came.
C21_ConfirmStep ==
    (IsConfirmStep /\ DraftComplete) =>
        /\ orders = last.orders
        /\ IF SaysStockAffirmation
           THEN /\ last.out.action = "stock_added"
                /\ stock = Append(last.stock, DraftRow)
                /\ last.out.context = [EmptyContext EXCEPT !.stage = Some("initial")]
           ELSE /\ last.out.action = "awaiting_confirm"
                /\ stock = last.stock
                /\ last.out.context = last.context
                /\ last.out.context.step = Some("confirm")

\* tomatoes drafted with the expiry date 2026-11-04 are added on 2026-11-05
\* as expired
C21_Witness ==
    /\ IsConfirmStep
    /\ last.text = "yes"
    /\ last.today = Ordinal(2026, 11, 5)
    /\ last.context.expiry_date = Some("2026-11-04")
    /\ Len(stock) = Len(last.stock) + 1
    /\ stock[Len(stock)].status = "expired"
    /\ stock[Len(stock)].product_name = "Tomato"
    /\ stock[Len(stock)].price = Some(2500)

\* the reply "tomato" at the confirm step adds nothing
C21_Reprompt ==
    /\ IsConfirmStep
    /\ DraftComplete
    /\ last.text = "tomato"
    /\ last.out.action = "awaiting_confirm"
    /\ stock = last.stock

----------------------------------------------------------------------------
(* C22 *)

\* a seller's turn outside the wizard
IsSellerIntentTurn == IsSellerTurn /\ last.context.stage # Some("adding_stock")

\* the product keywords, the add verbs and the add-stock phrases the text
\* holds
KeywordsSaid == {k \in 1..Len(product_keywords) : Contains(HeardText, product_keywords[k])}

SaysAddVerb == \E w \in {"add", "create", "new"} : Contains(HeardText, w)

SaysAddPhrase ==
    \E w \in {"add stock", "add item", "add product", "new stock", "new item", "create stock", "add new"} :
        Contains(HeardText, w)

IsGreetingText == HeardText \in {"hello", "hi", "hey", "start", "hi there", "hello there"}

\* the turn was answered by the quick add
IsQuickAdd == IsSellerIntentTurn /\ last.out.rule = "quick_add"

\* the context of the wizard seeded with a name
SeededContext(name) ==
    [EmptyContext EXCEPT !.stage = Some("adding_stock"), !.product_name = Some(name)]

\* C22, as stated: the quick add answers only a text with a product
\* keyword, an add verb and a digit word, and returns the context of the
\* wizard at step expiry_date; a text with the keyword and the verb and no
\* digit word does not enter the wizard.
C22_QuickAddNeedsDigit ==
    /\ IsQuickAdd =>
            /\ KeywordsSaid # {} /\ SaysAddVerb /\ DigitWordsSaid # {}
            /\ last.out.context.step = Some("expiry_date")
    /\ (IsSellerIntentTurn /\ KeywordsSaid # {} /\ SaysAddVerb /\ DigitWordsSaid = {}) =>
            last.out.context.stage # Some("adding_stock")

\* C22, amended: outside the wizard the quick add answers exactly the texts
\* that hold a product keyword and an add verb and are no add-stock phrase;
\* with a digit word that reads as a positive number it returns the
\* wizard's context at step expiry_date seeded with the first keyword,
\* title-cased, and that number; with no digit word, or with 0, it enters
\* the wizard at step quantity seeded with the name alone. It writes
\* nothing.
C22_QuickAdd ==
    IsSellerIntentTurn =>
        /\ IsQuickAdd <=> (SaysAddVerb /\ KeywordsSaid # {} /\ ~SaysAddPhrase /\ ~IsGreetingText)
        /\ IsQuickAdd =>
                /\ StoreUntouched
                /\ LET name == Title(product_keywords[LeastOf(KeywordsSaid)]) IN
                   IF DigitsSaid > 0
                   THEN last.out.context = [SeededContext(name) EXCEPT !.step = Some("expiry_date"),
                                                                        !.quantity = Some(DigitsSaid)]
                   ELSE last.out.context = [SeededContext(name) EXCEPT !.step = Some("quantity")]

\* "add apple" enters the wizard at step quantity
C22_Witness ==
    /\ IsQuickAdd
    /\ last.text = "add apple"
    /\ last.out.context.stage = Some("adding_stock")
    /\ last.out.context.step = Some("quantity")
    /\ last.out.context.product_name = Some("Apple")
    /\ last.out.context.quantity = None

\* "add 5 apple" enters the wizard at step expiry_date with 5 apples
C22_Seeded ==
    /\ IsQuickAdd
    /\ last.text = "add 5 apple"
    /\ last.out.context.step = Some("expiry_date")
    /\ last.out.context.product_name = Some("Apple")
    /\ last.out.context.quantity = Some(5)

----------------------------------------------------------------------------
(* C23 *)

\* a buyer's turn that no stage handler answers, and no greeting
IsBuyerIntentTurn == IsBuyerTurn /\ ~IsSelection /\ ~IsConfirmation /\ ~IsGreetingText

\* a seller's turn past the greeting, the add-stock phrases and the quick add
IsSellerQueryTurn ==
    IsSellerIntentTurn /\ ~IsGreetingText /\ ~SaysAddPhrase /\ ~(SaysAddVerb /\ KeywordsSaid # {})

\* the triggers of the rules in the text
TriggersUrgency == ContainsAny(HeardText, <<"expir", "urgent", "critical", "soon">>)

TriggersPrice == ContainsAny(HeardText, <<"price", "cost", "cheap", "cheapest", "expensive", "budget">>)

TriggersHelp == ContainsAny(HeardText, <<"help", "how", "what can">>)

TriggersSummary == ContainsAny(HeardText, <<"summary", "overview", "status", "how much", "total">>)

TriggersBuyerSearch ==
    \/ ContainsAny(HeardText, <<"find", "search", "looking for", "want", "need", "show", "available",
                                "what", "get", "buy">>)
    \/ ContainsAny(HeardText, product_keywords)

TriggersSellerSearch ==
    ContainsAny(HeardText, <<"find", "search", "show", "check">>) \/ ContainsAny(HeardText, product_keywords)

TriggersCancel == ContainsAny(HeardText, <<"no", "cancel", "nevermind", "stop">>)

\* the rule that answers by the documented order: Summary, Urgency, Search,
\* Price, Cancel, Help
DocumentedRule(isSeller) ==
    IF isSeller /\ TriggersSummary THEN "summary"
    ELSE IF TriggersUrgency THEN "urgency"
    ELSE IF (IF isSeller THEN TriggersSellerSearch ELSE TriggersBuyerSearch) THEN "search"
    ELSE IF ~isSeller /\ TriggersPrice THEN "price"
    ELSE IF TriggersCancel THEN "cancel"
    ELSE IF TriggersHelp THEN "help"
    ELSE "default"

\* the rule that answers a buyer: Search, Price, Urgency, Cancel, Help
BuyerRule ==
    IF TriggersBuyerSearch THEN "search"
    ELSE IF TriggersPrice THEN "price"
    ELSE IF TriggersUrgency THEN "urgency"
    ELSE IF TriggersCancel THEN "cancel"
    ELSE IF TriggersHelp THEN "help"
    ELSE "default"

\* the rule that answers a seller: Summary, Urgency, Search, Help, Cancel
SellerRule ==
    IF TriggersSummary THEN "summary"
    ELSE IF TriggersUrgency THEN "urgency"
    ELSE IF TriggersSellerSearch THEN "search"
    ELSE IF TriggersHelp THEN "help"
    ELSE IF TriggersCancel THEN "cancel"
    ELSE "default"

\* C23, as stated: outside a stage handler the response is that of the first
\* rule triggered in the order Summary, Urgency, Search, Price, Cancel, Help,
\* for both roles.
C23_DocumentedOrder ==
    /\ IsBuyerIntentTurn => last.out.rule = DocumentedRule(FALSE)
    /\ IsSellerQueryTurn => last.out.rule = DocumentedRule(TRUE)

\* C23, amended: outside a stage handler the response is that of the first
\* rule triggered, in the order Search, Price, Urgency, Cancel, Help for a
\* buyer and Summary, Urgency, Search, Help, Cancel for a seller.
C23_RuleOrder ==
    /\ IsBuyerIntentTurn => last.out.rule = BuyerRule
    /\ IsSellerQueryTurn => last.out.rule = SellerRule

\* "what is urgent" triggers the search and the urgency rule: the buyer is
\* answered by the search
C23_Witness ==
    /\ IsBuyerIntentTurn
    /\ last.text = "what is urgent"
    /\ TriggersUrgency
    /\ TriggersBuyerSearch
    /\ last.out.rule = "search"

\* "stop help" triggers the cancel and the help rule: the seller is answered
\* by the help
C23_SellerHelpFirst ==
    /\ IsSellerQueryTurn
    /\ last.text = "stop help"
    /\ TriggersCancel
    /\ TriggersHelp
    /\ last.out.rule = "help"

----------------------------------------------------------------------------
(* C24 *)

\* a turn of either role that no stage handler answers
IsIntentTurn == (IsBuyerTurn /\ ~IsSelection /\ ~IsConfirmation) \/ IsSellerIntentTurn

IsGreeting == last.out.action = "greeting"

\* C24: outside the stage handlers, for both roles, a text that is a
\* greeting phrase and holds no product keyword is answered by the greeting
\* with the context {stage: initial}, a text that holds a product keyword is
\* never answered by the greeting, and neither is any text that is no
\* greeting phrase. The greeting writes nothing.
C24_Greeting ==
    IsIntentTurn =>
        /\ (IsGreetingText /\ KeywordsSaid = {}) =>
                /\ IsGreeting
                /\ last.out.context = [EmptyContext EXCEPT !.stage = Some("initial")]
                /\ StoreUntouched
        /\ IsGreeting => (IsGreetingText /\ KeywordsSaid = {})

\* the seller's "Hello" is answered by the greeting
C24_Witness ==
    /\ IsSellerIntentTurn
    /\ last.text = "Hello"
    /\ IsGreeting
    /\ last.out.context.stage = Some("initial")

\* the buyer's "hi milk" is answered by the search
C24_KeywordWins ==
    /\ IsBuyerTurn
    /\ IsIntentTurn
    /\ last.text = "hi milk"
    /\ KeywordsSaid # {}
    /\ last.out.rule = "search"

----------------------------------------------------------------------------
(* C25 *)

\* a request has been observed
Observed == last # NoTurn

\* the response to the observed request as a function of what the request
\* carries (caller, text, context), the rows read and the date
ResponseOf ==
    IF last.role = "manager"
    THEN process_manager_voice_query(HeardText, last.view, last.context, last.user_id, last.today)
    ELSE process_middleman_voice_query(HeardText, last.view, last.context, last.user_id, last.today)

\* the tables after the statements of a response are run on the tables the
\* request found
StoreAfter(response) == ExecuteAll([stock |-> last.stock, orders |-> last.orders], response.writes)

----------------------------------------------------------------------------
(* C26 *)

IsPriceQuery == IsBuyerTurn /\ last.out.rule = "price"

IsUrgencyQuery == IsBuyerTurn /\ last.out.rule = "urgency"

\* the rows read that have a price at all, and those whose price is not 0
HavingPrice == {k \in 1..Len(last.view) : last.view[k].price # None}

HavingNonZeroPrice == {k \in HavingPrice : Val(last.view[k].price) # 0}

\* the rows read that expire within 3 days
ExpiringRows == {k \in 1..Len(last.view) : DaysLeft(last.view[k].expiry_date, last.today) <= 3}

\* the row k read, with its days_left
Offered(k) == [last.view[k] EXCEPT !.days_left = Some(DaysLeft(last.view[k].expiry_date, last.today))]

\* the price rule presents a cheapest row of P, or resets when P is empty
PricePresents(P) ==
    IF P = {} THEN ResetReturned /\ last.out.data = None
    ELSE \E k \in P :
            /\ \A j \in P : Val(last.view[k].price) <= Val(last.view[j].price)
            /\ last.out.data = Some(Offered(k))
            /\ last.out.context = [EmptyContext EXCEPT !.stage = Some("confirm_order"),
                                                       !.selected_item = Some(Offered(k))]

\* the urgency rule: nothing, the one row, or a list of at most 5 rows in
\* ascending days_left that leaves out no row expiring sooner
UrgencyPresents ==
    IF ExpiringRows = {} THEN ResetReturned /\ last.out.data = None
    ELSE IF Cardinality(ExpiringRows) = 1
    THEN \E k \in ExpiringRows :
            last.out.context = [EmptyContext EXCEPT !.stage = Some("confirm_order"),
                                                    !.selected_item = Some(Offered(k))]
    ELSE /\ last.out.context.stage = Some("awaiting_selection")
         /\ last.out.context.selected_item = None
         /\ last.out.context.results # None
         /\ last.out.data = last.out.context.results
         /\ LET results == Val(last.out.context.results) IN
            /\ Len(results) = IF Cardinality(ExpiringRows) < 5 THEN Cardinality(ExpiringRows) ELSE 5
            /\ \A i \in 1..Len(results) : \E k \in ExpiringRows : results[i] = Offered(k)
            /\ \A i, j \in 1..Len(results) : i < j => results[i].stock_id # results[j].stock_id
            /\ \A i, j \in 1..Len(results) :
                    i < j => Val(results[i].days_left) <= Val(results[j].days_left)
            /\ \A k \in ExpiringRows :
                    (\A i \in 1..Len(results) : results[i] # Offered(k)) =>
                        \A i \in 1..Len(results) :
                            Val(results[i].days_left) <= DaysLeft(last.view[k].expiry_date, last.today)

\* C26, as stated: a buyer's price question presents the cheapest of the
\* available items that have a price, a price of 0 included, and returns
\* confirm_order with it, or the context {stage: initial} when none has a
\* price; a buyer's urgency question takes the available items with
\* days_left <= 3 in ascending days_left: confirm_order for one,
\* awaiting_selection with at most 5 results for several, {stage: initial}
\* for none.
C26_CheapestOfPriced ==
    /\ IsPriceQuery => (PricePresents(HavingPrice) /\ StoreUntouched)
    /\ IsUrgencyQuery => (UrgencyPresents /\ StoreUntouched)

\* C26, amended: the price question presents the cheapest of the available
\* items whose price is neither null nor 0; the urgency question is as
\* stated.
C26_PriceAndUrgency ==
    /\ IsPriceQuery => (PricePresents(HavingNonZeroPrice) /\ StoreUntouched)
    /\ IsUrgencyQuery => (UrgencyPresents /\ StoreUntouched)

\* with bread at the price of 0 and cheese at 10 on the shelf, the price
\* question presents the cheese
C26_Witness ==
    /\ IsPriceQuery
    /\ \E k \in HavingPrice : last.view[k].product_name = "Bread" /\ last.view[k].price = Some(0)
    /\ last.out.context.stage = Some("confirm_order")
    /\ Val(last.out.context.selected_item).product_name = "Cheese"
    /\ Val(last.out.context.selected_item).price = Some(1000)

\* six items expire within 3 days: the urgency question lists 5
C26_UrgentCapped ==
    /\ IsUrgencyQuery
    /\ Cardinality(ExpiringRows) = 6
    /\ Len(Val(last.out.context.results)) = 5

\* one item expires within 3 days: the urgency question selects it
C26_UrgentSingle ==
    /\ IsUrgencyQuery
    /\ Cardinality(ExpiringRows) = 1
    /\ last.out.context.stage = Some("confirm_order")

----------------------------------------------------------------------------
(* C27 *)

IsSellerUrgency == IsSellerTurn /\ last.out.rule = "urgency"

\* the rows of the store that belong to the seller
OwnRows == {k \in 1..Len(last.stock) : last.stock[k].manager_id = last.user_id}

\* the seller's rows a search for the text is about: those whose name holds a
\* product keyword of the text, all of them when the text holds none
SearchedRows ==
    LET said == KeywordsSaid IN
    IF said = {} THEN OwnRows
    ELSE {k \in OwnRows : \E w \in said :
                Contains(Lower(last.stock[k].product_name), product_keywords[w])}

\* the seller's available rows that expire within 7 days
SoonRows ==
    {k \in OwnRows : /\ last.stock[k].status = "available"
                     /\ DaysLeft(last.stock[k].expiry_date, last.today) <= 7}

\* the row k of the store, with its days_left
Reported(k) == [last.stock[k] EXCEPT !.days_left = Some(DaysLeft(last.stock[k].expiry_date, last.today))]

\* the turn reports the rows R: nothing when there is none, else at most 5 of
\* them in ascending days_left, none left out that expires sooner than one
\* reported; it returns {stage: initial} and writes nothing
Reports(R) ==
    /\ last.out.raised = None
    /\ ResetReturned
    /\ StoreUntouched
    /\ LET rows == R
           reported == {Reported(k) : k \in rows}
       IN  IF rows = {} THEN last.out.data = None
           ELSE /\ last.out.data # None
                /\ LET data == Val(last.out.data) IN
                   /\ Len(data) = IF Cardinality(rows) < 5 THEN Cardinality(rows) ELSE 5
                   /\ \A i \in 1..Len(data) : data[i] \in reported
                   /\ \A i, j \in 1..Len(data) : i < j => data[i].stock_id # data[j].stock_id
                   /\ \A i, j \in 1..Len(data) : i < j => Val(data[i].days_left) <= Val(data[j].days_left)
                   /\ \A item \in reported :
                        (\A i \in 1..Len(data) : data[i] # item) =>
                            \A i \in 1..Len(data) : Val(data[i].days_left) <= Val(item.days_left)

\* C27: a seller's search or urgency turn reports at most 5 of the seller's
\* own matching items in ascending days_left (urgency: only available items
\* with days_left <= 7), returns the context {stage: initial} with no results
\* and no selected item, and changes no order and no stock record.
C27_SellerReadOnly ==
    /\ IsSellerSearch => Reports(SearchedRows)
    /\ IsSellerUrgency => Reports(SoonRows)

\* six of the seller's available items expire within 7 days, a seventh is
\* reserved: the urgency turn reports 5 and returns {stage: initial}
C27_Witness ==
    /\ IsSellerUrgency
    /\ last.context.stage = Some("confirm_order")
    /\ Cardinality(SoonRows) = 6
    /\ \E k \in OwnRows : last.stock[k].status = "reserved"
    /\ Len(Val(last.out.data)) = 5
    /\ ResetReturned

\* a search for a product another seller holds reports nothing
C27_NothingFound ==
    /\ IsSellerSearch
    /\ HeardText = "butter"
    /\ \E k \in 1..Len(last.stock) : last.stock[k].product_name = "Butter"
    /\ last.out.data = None
    /\ ResetReturned

----------------------------------------------------------------------------
(* C28 *)

\* a turn took place
IsTurn == last # NoTurn

\* the turn was answered: no exception left the handler
Answered == last.out.raised = None

\* the wizard context names a step the wizard does not have
UnknownStep ==
    /\ last.context.stage = Some("adding_stock")
    /\ last.context.step # None
    /\ Val(last.context.step) \notin {"product_name", "quantity", "expiry_date", "price", "confirm"}

\* what an answered turn returns: an action and a next context with a
\* stage; the fallbacks reset to {stage: initial}; the store changes only on
\* a confirmed order or a confirmed stock addition
WellAnswered ==
    /\ last.out.action # ""
    /\ last.out.context.stage # None
    /\ last.out.action \in {"default", "error"} => ResetReturned
    /\ (IsSellerTurn /\ UnknownStep /\ ~SaysWizardCancel(HeardText)) =>
            (last.out.action = "error" /\ ResetReturned)
    /\ ~StoreUntouched => last.out.action \in {"order_confirmed", "stock_added"}

\* C28: no turn fails, whatever the role, the text and the context (a
\* context of stage adding_stock with an unknown or a missing step
\* included): every turn returns an action and a next context, the
\* fallbacks reset to {stage: initial}, and the store changes only on a
\* confirmed order or a confirmed stock addition.
C28_NoTurnFails == IsTurn => (Answered /\ WellAnswered)

\* every turn that raises nothing returns as C28 states
C28_AnsweredTurns == (IsTurn /\ Answered) => WellAnswered

\* a seller's "yes" on a context {stage: adding_stock, step: confirm} that
\* holds no expiry date raises TypeError
C28_ForgedConfirm ==
    /\ IsSellerTurn
    /\ last.context.stage = Some("adding_stock")
    /\ last.context.step = Some("confirm")
    /\ last.context.expiry_date = None
    /\ HeardText = "yes"
    /\ last.out.raised = Some("TypeError")
    /\ StoreUntouched

\* a context of stage adding_stock with an unknown step is answered by
\* error and {stage: initial}
C28_UnknownStep ==
    /\ IsSellerTurn
    /\ UnknownStep
    /\ last.out.action = "error"
    /\ ResetReturned

----------------------------------------------------------------------------
(* C29 *)

\* C29: in every turn that confirms an order the committed quantity is at
\* most the quantity of the selected item's snapshot; it is a multiple of 10
\* when the snapshot holds 10 or more and the snapshot quantity itself when
\* the snapshot holds less than 10; so the quantity the commit stores, the
\* snapshot quantity less the committed one, is never negative.
C29_CommittedQuantity ==
    OrderCommitted =>
        /\ CommittedQty <= Snapshot.quantity
        /\ IF Snapshot.quantity < 10
           THEN CommittedQty = Snapshot.quantity
           ELSE CommittedQty % 10 = 0
        /\ stock[RowOf(stock, Snapshot.stock_id)].quantity = Snapshot.quantity - CommittedQty
        /\ stock[RowOf(stock, Snapshot.stock_id)].quantity >= 0

\* 20 units asked of a snapshot of 7: the 7 are committed and 0 is stored
C29_Witness ==
    /\ OrderCommitted
    /\ HeardText = "confirm 20"
    /\ Snapshot.quantity = 7
    /\ CommittedQty = 7
    /\ stock[RowOf(stock, Snapshot.stock_id)].quantity = 0

\* 38 units asked of a snapshot of 55: 30 are committed and 25 are stored
C29_RoundedDown ==
    /\ OrderCommitted
    /\ HeardText = "confirm 38"
    /\ Snapshot.quantity = 55
    /\ CommittedQty = 30
    /\ stock[RowOf(stock, Snapshot.stock_id)].quantity = 25

----------------------------------------------------------------------------
(* C30 *)

\* C30: in every state the buyers' turns reach, in any interleaving, a stock
\* item whose status is ordered has the quantity 0.
C30_OrderedIsEmpty ==
    \A k \in 1..Len(stock) : stock[k].status = "ordered" => stock[k].quantity = 0

\* one buyer ordered the 50 apples, which marked the item ordered; then another
\* ordered 20 of a snapshot of 50 taken before: the item is ordered with 30
\* units
C30_StaleCommit ==
    /\ Len(orders) = 2
    /\ orders[1] = OrderRow(2, orders[1].middleman_id, 50, "confirmed")
    /\ orders[2] = OrderRow(2, orders[2].middleman_id, 20, "confirmed")
    /\ orders[1].middleman_id # orders[2].middleman_id
    /\ stock[RowOf(stock, 2)].status = "ordered"
    /\ stock[RowOf(stock, 2)].quantity = 30

----------------------------------------------------------------------------
(* C31 *)

RECURSIVE OrderedUnits(_, _)
\* the units of the first n orders that are against the item stock_id
OrderedUnits(stock_id, n) ==
    IF n = 0 THEN 0
    ELSE OrderedUnits(stock_id, n - 1)
         + (IF orders[n].stock_id = stock_id /\ orders[n].status = "confirmed"
            THEN orders[n].quantity ELSE 0)

\* C31: under any interleaving of the buyers' selection and confirmation
\* turns, for every stock item the quantity left plus the units of the
\* confirmed orders against it is the quantity it had before the first
\* order.
C31_StockConserved ==
    \A k \in 1..Len(stock) :
        stock[k].quantity + OrderedUnits(stock[k].stock_id, Len(orders))
            = InitialStock[RowOf(InitialStock, stock[k].stock_id)].quantity

\* two buyers selected the milk while it held 10 units and each ordered 10:
\* 20 units are sold of 10
C31_Oversold ==
    /\ Len(orders) = 2
    /\ orders[1].middleman_id # orders[2].middleman_id
    /\ OrderedUnits(1, Len(orders)) = 20
    /\ stock[RowOf(stock, 1)].quantity = 0
    /\ InitialStock[RowOf(InitialStock, 1)].quantity = 10

----------------------------------------------------------------------------
(* C32 *)

\* the stock rows the turn found are all as they were, but for the quantity
\* and the status of the rows in S
OnlyTouched(S) ==
    /\ Len(stock) >= Len(last.stock)
    /\ \A k \in 1..Len(last.stock) :
            IF k \in S
            THEN [stock[k] EXCEPT !.quantity = 0, !.status = ""]
                    = [last.stock[k] EXCEPT !.quantity = 0, !.status = ""]
            ELSE stock[k] = last.stock[k]

\* the rows of the selected item
SelectedRows ==
    IF last.context.selected_item = None THEN {}
    ELSE {k \in 1..Len(last.stock) : last.stock[k].stock_id = Snapshot.stock_id}

\* C32: the store changes only through the two commit turns: a buyer's turn
\* inserts no stock item and alters none but the quantity and the status of
\* the selected item, on a confirmed order; a seller's turn inserts no order
\* and alters no stock item that exists; a turn whose action is neither
\* order_confirmed nor stock_added leaves orders and stock as they were.
C32_StoreFrame ==
    /\ IsBuyerTurn =>
            /\ Len(stock) = Len(last.stock)
            /\ OnlyTouched(IF OrderCommitted THEN SelectedRows ELSE {})
            /\ last.out.action # "stock_added"
    /\ IsSellerTurn =>
            /\ orders = last.orders
            /\ OnlyTouched({})
            /\ last.out.action # "order_confirmed"
    /\ (IsTurn /\ last.out.action \notin {"order_confirmed", "stock_added"}) => StoreUntouched

\* a buyer's confirmed order changed the selected row and no other, and a
\* stock item exists that was not selected
C32_Witness ==
    /\ IsBuyerTurn
    /\ OrderCommitted
    /\ SelectedRows # {}
    /\ \A k \in SelectedRows : stock[k] # last.stock[k]
    /\ \E k \in 1..Len(stock) : k \notin SelectedRows /\ stock[k] = last.stock[k]
    /\ Len(orders) = Len(last.orders) + 1

\* a seller's confirmed addition appended one stock row
C32_SellerAdds ==
    /\ IsSellerTurn
    /\ last.out.action = "stock_added"
    /\ Len(stock) = Len(last.stock) + 1
    /\ orders = last.orders

----------------------------------------------------------------------------
(* C33 *)

\* the replies tried on every context a conversation reaches
CommitTexts == BuyerTexts \cup {"cheapest", "urgent"}

\* what caller u is answered for the reply t on the context u holds
Reply(u, t, view) == process_middleman_voice_query(Strip(Lower(t)), view, ctx[u], u, today)

\* the context u holds is a confirmation of an item
Confirming(u) == ctx[u].stage = Some("confirm_order") /\ ctx[u].selected_item # None

\* a reply commits an order only on a confirmation, with an affirmation
\* word, for the selected item
CommitsOnAffirmation(u, t, out) ==
    out.action = "order_confirmed" =>
        /\ Confirming(u)
        /\ \E w \in {"yes", "confirm", "order", "proceed", "ok", "okay"} : Contains(Strip(Lower(t)), w)
        /\ Val(out.order).stock_id = Val(ctx[u].selected_item).stock_id
        /\ out.writes[1].row.stock_id = Val(ctx[u].selected_item).stock_id
        /\ out.writes[1].row.middleman_id = u

\* a reply returns a confirmation only by keeping the one the caller holds,
\* or for an item read or listed: the single result of a search, the
\* cheapest item, the single urgent item, or a selection from the results
EntersConfirmation(u, view, out) ==
    out.context.stage = Some("confirm_order") =>
        /\ out.context.selected_item # None
        /\ \/ Confirming(u) /\ out.context = ctx[u] /\ out.action = "awaiting_confirmation"
           \/ /\ ~Confirming(u)
              /\ out.action \in {"single_result", "price_info", "single_urgent"}
              /\ \E k \in 1..Len(view) : Val(out.context.selected_item).stock_id = view[k].stock_id
           \/ /\ ~Confirming(u)
              /\ out.action = "product_selected"
              /\ ctx[u].stage = Some("awaiting_selection")
              /\ \E k \in 1..Len(Val(ctx[u].results)) : out.context.selected_item = Some(Val(ctx[u].results)[k])

\* in every state of the conversations, whatever is replied
CommitReplies ==
    \A u \in Middlemen : \A view \in AvailableStock(stock) : \A t \in CommitTexts :
        LET out == Reply(u, t, view) IN
        CommitsOnAffirmation(u, t, out) /\ EntersConfirmation(u, view, out)

\* a turn that adds an order is the turn of a caller who held a confirmation
\* of the item ordered, and ends that caller's conversation in completed
CommitStep ==
    Len(orders') > Len(orders) =>
        /\ Len(orders') = Len(orders) + 1
        /\ \E u \in Middlemen :
            /\ Confirming(u)
            /\ orders'[Len(orders')].stock_id = Val(ctx[u].selected_item).stock_id
            /\ orders'[Len(orders')].middleman_id = u
            /\ ctx'[u].stage = Some("completed")
            /\ \A v \in Middlemen \ {u} : ctx'[v] = ctx[v]

\* C33: with every context sent back as it came, an order is committed only
\* by a turn on a context of stage confirm_order whose text holds an
\* affirmation word, for the stock_id of the selected item; and a context of
\* stage confirm_order is held only since a turn of the same conversation
\* returned it for that item, as the single result of a search, a selection,
\* the cheapest item or the single urgent item.
C33_CommitAfterConfirm == [](CommitReplies) /\ [][CommitStep]_vars

\* a buyer asked for apples, chose the first of the two listed and
\* confirmed: the order is for that item and the conversation has ended
C33_Witness ==
    /\ Len(orders) = 1
    /\ orders[1].stock_id = 2
    /\ orders[1].middleman_id = "m1"
    /\ ctx["m1"].stage = Some("completed")
    /\ ctx["m2"].stage = Some("confirm_order")
    /\ Val(ctx["m2"].selected_item).stock_id = 2

----------------------------------------------------------------------------
(* C34 *)

\* what manager u is answered for the reply t on the context u holds
WizardReply(u, t, view) == process_manager_voice_query(Strip(Lower(t)), view, ctx[u], u, today)

\* C34: in a conversation in which every returned context is sent back as
\* it came, a wizard context at a step holds the fields of the steps before
\* it: the product name from the quantity step on, a quantity >= 1 from the
\* expiry_date step on, a well-formed expiry date from the price step on,
\* and at the confirm step the price recorded (a number, or null); so an
\* affirmation at the confirm step always inserts the item.
C34_DraftComplete ==
    \A u \in Managers :
        ctx[u].stage = Some("adding_stock") =>
            LET step == StepIndex(ctx[u].step) IN
            /\ step > 0
            /\ step >= 2 => ctx[u].product_name # None /\ Len(Val(ctx[u].product_name)) > 0
            /\ step >= 3 => ctx[u].quantity # None /\ Val(ctx[u].quantity) >= 1
            /\ step >= 4 => ctx[u].expiry_date # None /\ Strptime(Val(ctx[u].expiry_date)) # None
            /\ step < 5 => ctx[u].price = None
            /\ step = 5 =>
                   \A view \in ManagerStock(stock, u) :
                       LET out == WizardReply(u, "yes", view) IN
                       /\ out.raised = None
                       /\ out.action = "stock_added"
                       /\ Len(out.writes) = 1
                       /\ out.writes[1].product_name = Val(ctx[u].product_name)
                       /\ out.writes[1].quantity = Val(ctx[u].quantity)
                       /\ out.writes[1].expiry_date = Val(ctx[u].expiry_date)
                       /\ out.writes[1].price = ctx[u].price

\* the quick add "add 5 apple", then the date and the price: the confirm
\* step holds the whole draft
C34_Witness ==
    /\ ctx["s1"].stage = Some("adding_stock")
    /\ ctx["s1"].step = Some("confirm")
    /\ ctx["s1"].product_name = Some("Apple")
    /\ ctx["s1"].quantity = Some(5)
    /\ ctx["s1"].expiry_date = Some("2026-11-07")
    /\ ctx["s1"].price = Some(3000)

\* the normal entry "add stock", "tomato", "30": the expiry_date step holds
\* the name and the quantity
C34_NormalEntry ==
    /\ ctx["s1"].stage = Some("adding_stock")
    /\ ctx["s1"].step = Some("expiry_date")
    /\ ctx["s1"].product_name = Some("Tomato")
    /\ ctx["s1"].quantity = Some(30)
    /\ ctx["s1"].expiry_date = None

----------------------------------------------------------------------------
(* C35 *)

\* the dates said at the expiry_date step
ExpiryTexts ==
    {"today", "tomorrow", "next week", "in 0 days", "in 2 days", "november 5", "november 4",
     "november 6", "january 1", "february 29", "skip"}

\* the day a "%Y-%m-%d" text names
DayOfText(expiry_date) == Val(Strptime(expiry_date))

\* the stock rows the wizard added
AddedRows == {k \in 1..Len(stock) : k > Len(InitialStock)}

\* whatever date is said at the expiry_date step, the date accepted is on or
\* after the day of the turn
AcceptedNotBefore ==
    \A u \in Managers :
        (ctx[u].stage = Some("adding_stock") /\ ctx[u].step = Some("expiry_date")) =>
            \A t \in ExpiryTexts : \A view \in ManagerStock(stock, u) :
                LET out == WizardReply(u, t, view) IN
                out.context.step = Some("price") =>
                    /\ out.context.expiry_date # None
                    /\ DayOfText(Val(out.context.expiry_date)) >= today

\* a date held by a wizard context is on or after the day the conversation
\* began, and on or after today unless midnight has passed since
HeldNotBefore ==
    \A u \in Managers :
        (ctx[u].stage = Some("adding_stock") /\ ctx[u].expiry_date # None) =>
            /\ DayOfText(Val(ctx[u].expiry_date)) >= Today0
            /\ today = Today0 => DayOfText(Val(ctx[u].expiry_date)) >= today

\* an item the wizard added as expired was dated on or after the day the
\* conversation began, and midnight has passed since
ExpiredOnlyOvernight ==
    \A k \in AddedRows :
        /\ stock[k].status \in {"available", "expired"}
        /\ stock[k].status = "expired" =>
                /\ DayOfText(stock[k].expiry_date) >= Today0
                /\ today > Today0

\* C35: every expiry date the wizard's expiry_date step accepts is on or
\* after the current date of the turn that reads it, so the wizard inserts
\* an item with status expired only when the date has changed between the
\* expiry_date turn and the confirm turn.
C35_NotBeforeToday == AcceptedNotBefore /\ HeldNotBefore /\ ExpiredOnlyOvernight

\* "today" was said on the first day and the item confirmed on the next: it
\* is inserted as expired
C35_Witness ==
    /\ today = Today0 + 1
    /\ AddedRows # {}
    /\ \A k \in AddedRows :
            /\ stock[k].expiry_date = Strftime(Today0)
            /\ stock[k].status = "expired"

\* "november 5" said on november 6 is taken as the 5th of november of the
\* next year
C35_RolledOver ==
    /\ today = Today0 + 1
    /\ ctx["s1"].step = Some("price")
    /\ ctx["s1"].expiry_date = Some("2027-11-05")

----------------------------------------------------------------------------
(* C36 *)

\* the items caller u holds: the results listed and the item selected
HeldItems(u) ==
    (IF ctx[u].results = None THEN {}
     ELSE {Val(ctx[u].results)[k] : k \in 1..Len(Val(ctx[u].results))})
    \cup (IF ctx[u].selected_item = None THEN {} ELSE {Val(ctx[u].selected_item)})

\* C36: no item is offered to a buyer, and none is ordered, whose expiry
\* date is before the day it is listed: every item of a buyer's results and
\* every selected item has days_left >= 0, and every order is against an
\* item that had not expired when the conversation began.
C36_NeverExpired ==
    /\ \A u \in Middlemen : \A item \in HeldItems(u) :
            item.days_left # None /\ Val(item.days_left) >= 0
    /\ \A k \in 1..Len(orders) :
            ~TextLess(stock[RowOf(stock, orders[k].stock_id)].expiry_date, Strftime(Today0))

\* after midnight the bread, dated the day before and still available, is
\* offered with days_left -1 and then ordered
C36_ExpiredOrdered ==
    /\ today = Today0 + 1
    /\ Len(orders) = 1
    /\ stock[RowOf(stock, orders[1].stock_id)].product_name = "Bread"
    /\ TextLess(stock[RowOf(stock, orders[1].stock_id)].expiry_date, Strftime(today))
    /\ stock[RowOf(stock, orders[1].stock_id)].status = "ordered"

\* the bread is held as the selected item with days_left -1
C36_ExpiredOffered ==
    /\ ctx["m1"].stage = Some("confirm_order")
    /\ Val(ctx["m1"].selected_item).product_name = "Bread"
    /\ Val(ctx["m1"].selected_item).days_left = Some(0 - 1)

\* once the stock list has been read after midnight the bread is expired
\* and a search for it finds nothing
C36_MarkedOnRead ==
    /\ today = Today0 + 1
    /\ stock[5].status = "expired"
    /\ ctx["m1"].stage = Some("search_failed")

====
